---- MODULE Spec2Model ----
(***************************************************************************)
(* WindowPositioner: the position store (PositionStorage), the positioning *)
(* engine (MoveWindowAccurate and its strategy chain) and the foreground   *)
(* engine (focusWindow).                                                   *)
(***************************************************************************)
EXTENDS Integers, Sequences, FiniteSets, TLC

VARIABLES
    \* ---- position store (PositionStorage) ----
    storageFile,   \* content of positions.json
    tmpFile,       \* content of positions.json.tmp
    mu,            \* PositionStorage.mu: the task holding it, or NoTask
    spc,           \* per task: where it is inside a store call
    sop,           \* per task: the store call it runs
    positions,     \* per task: the local map `positions` of the call
    sret,          \* per task: what the call returned
    ioerr,         \* per task: the call met an I/O failure
    seen,          \* per task: the last commit as it was when loadAll read the file
    hist,          \* the Save/Delete calls that returned nil, in commit order
    lastRename,    \* the call whose rename last replaced the store file
    committed,     \* the map handed to the last rename that succeeded
    crashed,       \* the process was killed and no saveAll has rewritten the temp file since
    ncalls,        \* number of store calls begun
    \* ---- the target window, as the OS holds it ----
    win,           \* rect, show state, extended style, posted request, validity
    attached,      \* callers whose input queue is attached to the window's thread
    \* ---- MoveWindowAccurate ----
    mpc,           \* "idle", the strategy to try next, or "done"
    mtarget,       \* the target (x, y, width, height)
    mresult,       \* "none", "nil" or "error"
    invoked,       \* the strategies invoked by the current call, in order
    outcomes,      \* what each of them returned
    mcalls,        \* the OS mutation calls issued by the step last run
    mutated,       \* the current call has issued an OS mutation call
    atTarget,      \* the geometry read on entry equalled the target
    repeated,      \* the call directly follows a successful one with the same target
    quiet,         \* nothing has touched the window since the last call returned
    rectAtReturn,  \* the window's rectangle when the call returned
    showBefore,    \* show state when the last strategy started
    showAfter,     \* show state when the last strategy returned
    nmoves,        \* number of MoveWindowAccurate calls still to begin
    \* ---- focusWindow ----
    fpc,           \* "idle", the method to try next, or "done"
    fresult,       \* "none", "nil" or "error"
    finvoked,      \* the methods invoked by the current call, in order
    fcalls,        \* the OS mutation calls issued by the step last run
    foutcomes,     \* what each invoked method returned
    fentry,        \* the rectangle read on entry and what became of the recentering
    nfocus,        \* number of focusWindow calls still to begin
    \* ---- the window manager ----
    gpc,           \* per goroutine: where it is
    operationMutex, \* WindowManager.operationMutex: the goroutine holding it, or NoTask
    wmWindows,     \* WindowManager.windows, the cached list of the presentation layer
    passPositions, \* `positions` of the pass in progress or last run
    passWindows,   \* `windows` of the pass in progress or last run
    passIdx,       \* how many of them the loop has gone through
    attempts,      \* the MoveWindowAccurate calls of that pass and their results
    passLog,       \* the calls of repositionSavedWindows: who, when, after cancellation?
    now,           \* seconds since the goroutines were started
    nextTick,      \* when the ticker sends next
    tickPending,   \* a tick is waiting in ticker.C
    ctxDone,       \* cancel() has been called
    exited,        \* the process has ended
    cacheBefore,   \* the cached list when the last refresh was called
    refreshErr,    \* the last refresh met an enumeration error
    savedFields,   \* the identity fields and identifiers of the snapshots saved from
    nui,           \* number of UI callbacks still to come
    uiRet,         \* what the last store call of the UI returned
    expected,      \* the map the store calls that returned nil add up to
    passLoadErr,   \* GetAllPositions of the pass in progress met a load error
    passExpected,  \* `expected` when the pass in progress read the store
    lastFailure,   \* the last failure of a pass that has returned
    \* ---- EnumerateWindows ----
    epc,           \* "idle", "next" (inside EnumWindows), a position of getWindowInfo, "filter", "done"
    eidx,          \* how many windows EnumWindows has visited
    elive,         \* the window whose snapshot is being taken still exists
    einfo,         \* the variables of getWindowInfo, as a snapshot
    elist,         \* enumeratedWindows, the accumulation buffer
    eok,           \* whether procEnumWindows.Call returned non-zero
    eret,          \* what EnumerateWindows returned
    efailed,       \* the OS calls of the snapshot in progress that failed
    einvalidAt,    \* the position of getWindowInfo when the owner destroyed the window
    einfoAt,       \* the variables of getWindowInfo at that moment
    nfail,         \* number of failing sub-queries still to come
    \* ---- the locks, one Lock or Unlock at a time ----
    todo,          \* per task: the lock operations its call in progress has still to make
    truns,         \* per task: how many calls it has made
    windowsMutex,  \* wm.windowsMutex: the writer and the readers that hold it
    enumMutex,     \* the task that holds enumMutex
    tret           \* per task: what its last EnumerateWindows returned

storeVars == <<storageFile, tmpFile, mu, spc, sop, positions, sret, ioerr, seen,
               hist, lastRename, committed, crashed, ncalls>>
winVars == <<win, attached>>
moveVars == <<mpc, mtarget, mresult, invoked, outcomes, mcalls, mutated, atTarget,
              repeated, quiet, rectAtReturn, showBefore, showAfter, nmoves>>
focusVars == <<fpc, fresult, finvoked, fcalls, foutcomes, fentry, nfocus>>
engineVars == <<winVars, moveVars, focusVars>>
managerVars == <<gpc, operationMutex, wmWindows, passPositions, passWindows, passIdx,
                 attempts, passLog, now, nextTick, tickPending, ctxDone, exited,
                 cacheBefore, refreshErr, savedFields, nui, uiRet, expected,
                 passLoadErr, passExpected, lastFailure>>
enumVars == <<epc, eidx, elive, einfo, elist, eok, eret, efailed, einvalidAt, einfoAt, nfail>>
lockVars == <<todo, truns, windowsMutex, enumMutex, tret>>
vars == <<storeVars, engineVars, managerVars, enumVars, lockVars>>

(***************************************************************************)
(* Bounds and inputs                                                       *)
(***************************************************************************)
MaxCalls == 3

Tasks == {"t1", "t2"}
NoTask == "none"

Ids == {"A|B|C|0x00000000|0x00000000", "T|K|E|0x14CF0000|0x00000100"}

WindowPosition(x, y, w, h) == [x |-> x, y |-> y, width |-> w, height |-> h]
NoPos == WindowPosition(0, 0, 0, 0)
SavedPositions == {WindowPosition(100, 100, 800, 600),
                   WindowPosition(-1920, -8, 1280, 1024)}

EmptyMap == [k \in {} |-> NoPos]

(***************************************************************************)
(* encoding/json as PositionStorage uses it: an int is written as an       *)
(* optional sign and decimal digits, a map as a set of key/value members.  *)
(***************************************************************************)
RECURSIVE Digits(_)
Digits(n) == IF n < 10 THEN <<n>> ELSE Append(Digits(n \div 10), n % 10)

RECURSIVE ParseDigits(_)
ParseDigits(s) ==
    IF Len(s) = 0 THEN 0
    ELSE 10 * ParseDigits(SubSeq(s, 1, Len(s) - 1)) + s[Len(s)]

FormatInt(n) == [neg |-> n < 0, digits |-> Digits(IF n < 0 THEN -n ELSE n)]
ParseInt(e) == IF e.neg THEN -ParseDigits(e.digits) ELSE ParseDigits(e.digits)

EncodeKey(id) == <<"quoted", id>>
DecodeKey(k) == k[2]

EncodePos(p) == [x |-> FormatInt(p.x), y |-> FormatInt(p.y),
                 width |-> FormatInt(p.width), height |-> FormatInt(p.height)]
DecodePos(e) == WindowPosition(ParseInt(e.x), ParseInt(e.y),
                               ParseInt(e.width), ParseInt(e.height))

AbsentFile == [kind |-> "absent", members |-> {}]
PartialFile == [kind |-> "partial", members |-> {}]

\* json.MarshalIndent(positions, "", "  ")
MarshalIndent(m) ==
    [kind |-> "doc",
     members |-> {<<EncodeKey(k), EncodePos(m[k])>> : k \in DOMAIN m}]

\* json.Unmarshal(data, &positions): fails on anything but a complete document
UnmarshalOk(f) == f.kind = "doc"
Unmarshal(f) ==
    LET keys == {DecodeKey(e[1]) : e \in f.members}
    IN [k \in keys |->
           DecodePos((CHOOSE e \in f.members : DecodeKey(e[1]) = k)[2])]

(***************************************************************************)
(* Results of the store calls                                              *)
(***************************************************************************)
NoRet == [kind |-> "none", pos |-> NoPos, map |-> EmptyMap]
RetNil == [kind |-> "nil", pos |-> NoPos, map |-> EmptyMap]
RetError == [kind |-> "error", pos |-> NoPos, map |-> EmptyMap]
RetNotFound == [kind |-> "notfound", pos |-> NoPos, map |-> EmptyMap]
RetPos(p) == [kind |-> "pos", pos |-> p, map |-> EmptyMap]
RetMap(m) == [kind |-> "map", pos |-> NoPos, map |-> m]

NoOp == [kind |-> "none", id |-> "", pos |-> NoPos]
StoreOp(kind, id, pos) == [kind |-> kind, id |-> id, pos |-> pos]
NoCommit == [op |-> NoOp, map |-> EmptyMap]

\* A map assignment that keeps an entry the map already has.
SetEntry_keepExisting(m, id, pos) ==
    [k \in DOMAIN m \cup {id} |-> IF k \in DOMAIN m THEN m[k] ELSE pos]

\* A map assignment that gives a key the map already has a second entry.
SetEntry_secondEntry(m, id, pos) ==
    IF id \in DOMAIN m
    THEN [k \in DOMAIN m \cup {id \o "#2"} |-> IF k = id \o "#2" THEN pos ELSE m[k]]
    ELSE [k \in DOMAIN m \cup {id} |-> IF k = id THEN pos ELSE m[k]]

\* A delete that removes nothing.
DeleteEntry_noop(m, id) == m

\* positions[identifier] = pos
SetEntry(m, id, pos) == [k \in DOMAIN m \cup {id} |-> IF k = id THEN pos ELSE m[k]]
\* delete(positions, identifier)
DeleteEntry(m, id) == [k \in DOMAIN m \ {id} |-> m[k]]

\* A load that finds no entry whatever the file holds.
loadAllResult_empty(fail) == <<FALSE, EmptyMap>>

(***************************************************************************)
(* loadAll: under ps.mu, read the file and decode it.  The outcome is      *)
(* <<err, map>>; fail is an I/O failure of os.ReadFile.                    *)
(***************************************************************************)
loadAllResult(fail) ==
    IF fail THEN <<TRUE, EmptyMap>>
    ELSE IF storageFile.kind = "absent" THEN <<FALSE, EmptyMap>>
    ELSE IF ~UnmarshalOk(storageFile) THEN <<TRUE, EmptyMap>>
    ELSE <<FALSE, Unmarshal(storageFile)>>

\* A Save that, when the load fails, goes on with a map of the new entry only.
AfterLoad_saveDespiteError(op, r) ==
    IF op.kind = "GetAll" THEN
        [pc |-> "done", ret |-> IF r[1] THEN RetMap(EmptyMap) ELSE RetMap(r[2]),
         map |-> EmptyMap]
    ELSE IF op.kind = "Save" THEN
        [pc |-> "saveAll", ret |-> NoRet, map |-> SetEntry(r[2], op.id, op.pos)]
    ELSE IF r[1] THEN [pc |-> "done", ret |-> RetError, map |-> EmptyMap]
    ELSE IF op.kind = "Load" THEN
        [pc |-> "done",
         ret |-> IF op.id \in DOMAIN r[2] THEN RetPos(r[2][op.id]) ELSE RetNotFound,
         map |-> EmptyMap]
    ELSE
        [pc |-> "saveAll", ret |-> NoRet, map |-> DeleteEntry(r[2], op.id)]

\* Calls that take a failed load for an empty store.
AfterLoad_errorAsEmpty(op, r) ==
    IF op.kind = "GetAll" THEN [pc |-> "done", ret |-> RetMap(r[2]), map |-> EmptyMap]
    ELSE IF op.kind = "Load" THEN
        [pc |-> "done",
         ret |-> IF op.id \in DOMAIN r[2] THEN RetPos(r[2][op.id]) ELSE RetNotFound,
         map |-> EmptyMap]
    ELSE IF op.kind = "Save" THEN
        [pc |-> "saveAll", ret |-> NoRet, map |-> SetEntry(r[2], op.id, op.pos)]
    ELSE
        [pc |-> "saveAll", ret |-> NoRet, map |-> DeleteEntry(r[2], op.id)]

\* What each call does with loadAll's result, up to its call of saveAll.
AfterLoad(op, r) ==
    IF op.kind = "GetAll" THEN
        [pc |-> "done", ret |-> IF r[1] THEN RetMap(EmptyMap) ELSE RetMap(r[2]),
         map |-> EmptyMap]
    ELSE IF r[1] THEN [pc |-> "done", ret |-> RetError, map |-> EmptyMap]
    ELSE IF op.kind = "Load" THEN
        [pc |-> "done",
         ret |-> IF op.id \in DOMAIN r[2] THEN RetPos(r[2][op.id]) ELSE RetNotFound,
         map |-> EmptyMap]
    ELSE IF op.kind = "Save" THEN
        [pc |-> "saveAll", ret |-> NoRet, map |-> SetEntry(r[2], op.id, op.pos)]
    ELSE
        [pc |-> "saveAll", ret |-> NoRet, map |-> DeleteEntry(r[2], op.id)]

StoreInit ==
    /\ storageFile = AbsentFile
    /\ tmpFile = AbsentFile
    /\ mu = NoTask
    /\ spc = [t \in Tasks |-> "idle"]
    /\ sop = [t \in Tasks |-> NoOp]
    /\ positions = [t \in Tasks |-> EmptyMap]
    /\ sret = [t \in Tasks |-> NoRet]
    /\ ioerr = [t \in Tasks |-> FALSE]
    /\ seen = [t \in Tasks |-> NoCommit]
    /\ hist = <<>>
    /\ lastRename = NoOp
    /\ committed = EmptyMap
    /\ crashed = FALSE
    /\ ncalls = 0

\* A task enters a store call; every call starts with loadAll.
BeginCall(t, op) ==
    /\ ncalls < MaxCalls
    /\ ncalls' = ncalls + 1
    /\ spc' = [spc EXCEPT ![t] = "loadAll"]
    /\ sop' = [sop EXCEPT ![t] = op]
    /\ sret' = [sret EXCEPT ![t] = NoRet]
    /\ ioerr' = [ioerr EXCEPT ![t] = FALSE]
    /\ positions' = [positions EXCEPT ![t] = EmptyMap]
    /\ seen' = [seen EXCEPT ![t] = NoCommit]
    /\ UNCHANGED <<storageFile, tmpFile, mu, hist, lastRename, committed, crashed>>
    /\ UNCHANGED <<engineVars, managerVars, enumVars, lockVars>>

Returned(t) == spc[t] \in {"idle", "done"}

SavePosition(t) ==
    /\ Returned(t)
    /\ \E id \in Ids, pos \in SavedPositions : BeginCall(t, StoreOp("Save", id, pos))

LoadPosition(t) ==
    /\ Returned(t)
    /\ \E id \in Ids : BeginCall(t, StoreOp("Load", id, NoPos))

DeletePosition(t) ==
    /\ Returned(t)
    /\ \E id \in Ids : BeginCall(t, StoreOp("Delete", id, NoPos))

GetAllPositions(t) ==
    /\ Returned(t)
    /\ BeginCall(t, StoreOp("GetAll", "", NoPos))

\* loadAll, a critical section of ps.mu from Lock to the deferred Unlock.
loadAll(t) ==
    /\ spc[t] = "loadAll"
    /\ mu = NoTask
    /\ \E fail \in BOOLEAN :
          LET r == loadAllResult(fail)
              a == AfterLoad(sop[t], r)
          IN /\ spc' = [spc EXCEPT ![t] = a.pc]
             /\ sret' = [sret EXCEPT ![t] = a.ret]
             /\ positions' = [positions EXCEPT ![t] = a.map]
             /\ ioerr' = [ioerr EXCEPT ![t] = r[1]]
    /\ seen' = [seen EXCEPT ![t] = [op |-> lastRename, map |-> committed]]
    /\ UNCHANGED <<storageFile, tmpFile, mu, sop, hist, lastRename, committed,
                   crashed, ncalls>>
    /\ UNCHANGED <<engineVars, managerVars, enumVars, lockVars>>

\* os.WriteFile given the store file itself instead of the temp file.
WriteFile_Truncate_inPlace == [store |-> PartialFile, tmp |-> tmpFile]

\* The two files once os.WriteFile has opened its target, truncating it:
\* the target is tmpFile := ps.storageFile + ".tmp".
WriteFile_Truncate == [store |-> storageFile, tmp |-> PartialFile]

\* saveAll: Lock, marshal, and os.WriteFile opens the temp file.
saveAll_Open(t) ==
    /\ spc[t] = "saveAll"
    /\ mu = NoTask
    /\ mu' = t
    /\ storageFile' = WriteFile_Truncate.store
    /\ tmpFile' = WriteFile_Truncate.tmp
    /\ crashed' = FALSE
    /\ spc' = [spc EXCEPT ![t] = "write"]
    /\ UNCHANGED <<sop, positions, sret, ioerr, seen, hist,
                   lastRename, committed, ncalls>>
    /\ UNCHANGED <<engineVars, managerVars, enumVars, lockVars>>

\* os.WriteFile writes the document; on failure saveAll returns the error.
saveAll_WriteFile(t) ==
    /\ spc[t] = "write"
    /\ mu = t
    /\ \E fail \in BOOLEAN :
          IF fail
          THEN /\ spc' = [spc EXCEPT ![t] = "done"]
               /\ sret' = [sret EXCEPT ![t] = RetError]
               /\ ioerr' = [ioerr EXCEPT ![t] = TRUE]
               /\ mu' = NoTask
               /\ UNCHANGED tmpFile
          ELSE /\ spc' = [spc EXCEPT ![t] = "rename"]
               /\ tmpFile' = MarshalIndent(positions[t])
               /\ UNCHANGED <<sret, ioerr, mu>>
    /\ UNCHANGED <<storageFile, sop, positions, seen, hist, lastRename,
                   committed, crashed, ncalls>>
    /\ UNCHANGED <<engineVars, managerVars, enumVars, lockVars>>

\* os.Rename(tmpFile, ps.storageFile), the deferred Unlock, and the return.
saveAll_Rename(t) ==
    /\ spc[t] = "rename"
    /\ mu = t
    /\ mu' = NoTask
    /\ spc' = [spc EXCEPT ![t] = "done"]
    /\ \E fail \in BOOLEAN :
          IF fail
          THEN /\ sret' = [sret EXCEPT ![t] = RetError]
               /\ ioerr' = [ioerr EXCEPT ![t] = TRUE]
               /\ UNCHANGED <<storageFile, tmpFile, hist, lastRename, committed>>
          ELSE /\ storageFile' = tmpFile
               /\ tmpFile' = AbsentFile
               /\ sret' = [sret EXCEPT ![t] = RetNil]
               /\ hist' = Append(hist, sop[t])
               /\ lastRename' = sop[t]
               /\ committed' = positions[t]
               /\ UNCHANGED ioerr
    /\ UNCHANGED <<sop, positions, seen, crashed, ncalls>>
    /\ UNCHANGED <<engineVars, managerVars, enumVars, lockVars>>

\* The process is killed and started again: every call in flight is gone, the
\* mutex is new, the files are as they were left.
Crash ==
    /\ \E t \in Tasks : spc[t] \notin {"idle", "done"}
    /\ spc' = [t \in Tasks |-> "idle"]
    /\ sop' = [t \in Tasks |-> NoOp]
    /\ positions' = [t \in Tasks |-> EmptyMap]
    /\ sret' = [t \in Tasks |-> NoRet]
    /\ ioerr' = [t \in Tasks |-> FALSE]
    /\ seen' = [t \in Tasks |-> NoCommit]
    /\ mu' = NoTask
    /\ crashed' = TRUE
    /\ UNCHANGED <<storageFile, tmpFile, hist, lastRename, committed, ncalls>>
    /\ UNCHANGED <<engineVars, managerVars, enumVars, lockVars>>

StoreStep(t) ==
    \/ SavePosition(t)
    \/ LoadPosition(t)
    \/ DeletePosition(t)
    \/ GetAllPositions(t)
    \/ loadAll(t)
    \/ saveAll_Open(t)
    \/ saveAll_WriteFile(t)
    \/ saveAll_Rename(t)

StoreNext == (\E t \in Tasks : StoreStep(t)) \/ Crash

\* One task only: the calls run one after another.
StoreSeqNext == StoreStep("t1") \/ Crash

(***************************************************************************)
(* The target window and the OS calls made on it.  An OS call either fails *)
(* and changes nothing or succeeds and has its documented effect; which of *)
(* the two is the caller's outcome vector o, one entry per call site.      *)
(***************************************************************************)
MaxMoves == 2
MaxFocus == 1

WS_EX_TOPMOST == 8

\* Rectangles a window may have and targets a caller may ask for.
OffScreenRect == WindowPosition(5000, 5000, 800, 600)
\* A rectangle whose right edge is the left edge of the virtual screen.
TouchingRect == WindowPosition(-2720, 100, 800, 600)
Targets == SavedPositions
WinRects == SavedPositions \cup {OffScreenRect, TouchingRect}

\* Extended styles: none, topmost, another bit.
ExStyles == {0, 8, 256}

ShowStates == {"normal", "max", "min"}

NoPending == [set |-> FALSE, rect |-> NoPos, clearTop |-> FALSE]

HasTopmost(ex) == (ex \div WS_EX_TOPMOST) % 2 = 1
ClearTopmost(ex) == IF HasTopmost(ex) THEN ex - WS_EX_TOPMOST ELSE ex

\* An OS call on the window at call site i succeeds.
Ok(w, o, i) == w.valid /\ o[i]

\* SetWindowPos without SWP_ASYNCWINDOWPOS, moving and sizing.
SetPos(w, tgt) == [w EXCEPT !.rect = tgt]
\* SetWindowPos with SWP_ASYNCWINDOWPOS: the request is posted to the thread
\* that owns the window; top is TRUE for HWND_NOTOPMOST with z-order change.
PostPos(w, tgt, top) ==
    [w EXCEPT !.pending = [set |-> TRUE, rect |-> tgt,
                           clearTop |-> top \/ (w.pending.set /\ w.pending.clearTop)]]
\* SetWindowPos(HWND_NOTOPMOST, SWP_NOMOVE|SWP_NOSIZE)
NoTopmost(w) == [w EXCEPT !.exstyle = ClearTopmost(w.exstyle)]
\* ShowWindow(SW_MINIMIZE)
Minimize(w) ==
    IF w.show = "min" THEN w ELSE [w EXCEPT !.show = "min", !.restoreTo = w.show]
\* ShowWindow(SW_RESTORE), the SC_RESTORE system command
Restore(w) ==
    IF w.show = "min" THEN [w EXCEPT !.show = w.restoreTo]
    ELSE [w EXCEPT !.show = "normal", !.restoreTo = "normal"]
\* ShowWindow(placement.ShowCmd) for a show command read from a window that
\* was not minimized: SW_SHOWNORMAL or SW_SHOWMAXIMIZED
ShowAs(w, cmd) == [w EXCEPT !.show = cmd, !.restoreTo = cmd]

\* What a strategy returns: its bool, the window after it, the OS mutation
\* calls it issued, and whether it left its thread-input attachment in place.
Res(ret, w, calls, att) == [ret |-> ret, win |-> w, calls |-> calls, att |-> att]

\* trySetWindowPos
trySetWindowPos(w, tgt, o) ==
    Res(Ok(w, o, 1), IF Ok(w, o, 1) THEN SetPos(w, tgt) ELSE w,
        <<"SetWindowPos">>, FALSE)

\* tryAttachThreadInputForSetPos with the detach after a successful set only.
tryAttachThreadInputForSetPos_detachOnSuccess(w, tgt, o) ==
    IF ~Ok(w, o, 1) THEN Res(FALSE, w, <<>>, FALSE)
    ELSE IF ~Ok(w, o, 2) THEN Res(FALSE, w, <<"AttachThreadInput(attach)">>, FALSE)
    ELSE IF Ok(w, o, 3)
         THEN Res(TRUE, SetPos(w, tgt),
                  <<"AttachThreadInput(attach)", "SetWindowPos",
                    "AttachThreadInput(detach)">>, FALSE)
         ELSE Res(FALSE, w, <<"AttachThreadInput(attach)", "SetWindowPos">>, TRUE)

\* tryAttachThreadInputForSetPos: o[1] GetWindowThreadProcessId, o[2] attach,
\* o[3] SetWindowPos; the detach is deferred, so it runs on every return
\* after the attach.  GetCurrentThreadId never returns 0.
tryAttachThreadInputForSetPos(w, tgt, o) ==
    IF ~Ok(w, o, 1) THEN Res(FALSE, w, <<>>, FALSE)
    ELSE IF ~Ok(w, o, 2) THEN Res(FALSE, w, <<"AttachThreadInput(attach)">>, FALSE)
    ELSE Res(Ok(w, o, 3), IF Ok(w, o, 3) THEN SetPos(w, tgt) ELSE w,
             <<"AttachThreadInput(attach)", "SetWindowPos",
               "AttachThreadInput(detach)">>, FALSE)

\* tryMinimizeRestoreForSetPos: o[1] GetWindowPlacement, then three calls.
tryMinimizeRestoreForSetPos(w, tgt, o) ==
    IF ~Ok(w, o, 1) THEN Res(FALSE, w, <<>>, FALSE)
    ELSE IF w.show = "min" THEN
        \* restore, set, minimize again
        IF ~Ok(w, o, 2) THEN Res(FALSE, w, <<"ShowWindow(SW_RESTORE)">>, FALSE)
        ELSE IF ~Ok(w, o, 3)
             THEN Res(FALSE, Restore(w),
                      <<"ShowWindow(SW_RESTORE)", "SetWindowPos">>, FALSE)
        ELSE IF ~Ok(w, o, 4)
             THEN Res(FALSE, SetPos(Restore(w), tgt),
                      <<"ShowWindow(SW_RESTORE)", "SetWindowPos",
                        "ShowWindow(SW_MINIMIZE)">>, FALSE)
        ELSE Res(TRUE, Minimize(SetPos(Restore(w), tgt)),
                 <<"ShowWindow(SW_RESTORE)", "SetWindowPos",
                   "ShowWindow(SW_MINIMIZE)">>, FALSE)
    ELSE
        \* minimize, show with the prior show command, set
        IF ~Ok(w, o, 2) THEN Res(FALSE, w, <<"ShowWindow(SW_MINIMIZE)">>, FALSE)
        ELSE IF ~Ok(w, o, 3)
             THEN Res(FALSE, Minimize(w),
                      <<"ShowWindow(SW_MINIMIZE)", "ShowWindow(ShowCmd)">>, FALSE)
        ELSE IF ~Ok(w, o, 4)
             THEN Res(FALSE, ShowAs(Minimize(w), w.show),
                      <<"ShowWindow(SW_MINIMIZE)", "ShowWindow(ShowCmd)",
                        "SetWindowPos">>, FALSE)
        ELSE Res(TRUE, SetPos(ShowAs(Minimize(w), w.show), tgt),
                 <<"ShowWindow(SW_MINIMIZE)", "ShowWindow(ShowCmd)",
                   "SetWindowPos">>, FALSE)

\* trySetWindowPlacementForSetPos: o[1] GetWindowPlacement, o[2]
\* SetWindowPlacement (with SW_RESTORE if the window was minimized), o[3]
\* ShowWindow(SW_MINIMIZE) for a window that was minimized.
trySetWindowPlacementForSetPos(w, tgt, o) ==
    LET wasMinimized == w.show = "min"
        placed == SetPos(IF wasMinimized THEN Restore(w) ELSE w, tgt)
    IN IF ~Ok(w, o, 1) THEN Res(FALSE, w, <<>>, FALSE)
       ELSE IF ~Ok(w, o, 2) THEN Res(FALSE, w, <<"SetWindowPlacement">>, FALSE)
       ELSE IF ~wasMinimized THEN Res(TRUE, placed, <<"SetWindowPlacement">>, FALSE)
       ELSE IF ~Ok(w, o, 3)
            THEN Res(FALSE, placed,
                     <<"SetWindowPlacement", "ShowWindow(SW_MINIMIZE)">>, FALSE)
       ELSE Res(TRUE, Minimize(placed),
                <<"SetWindowPlacement", "ShowWindow(SW_MINIMIZE)">>, FALSE)

\* tryAsyncWindowPos: o[1] the asynchronous set, o[2] the same with SWP_NOZORDER
tryAsyncWindowPos(w, tgt, o) ==
    IF Ok(w, o, 1) THEN Res(TRUE, PostPos(w, tgt, FALSE), <<"SetWindowPos(async)">>, FALSE)
    ELSE Res(Ok(w, o, 2), IF Ok(w, o, 2) THEN PostPos(w, tgt, FALSE) ELSE w,
             <<"SetWindowPos(async)", "SetWindowPos(async)">>, FALSE)

\* tryPostMessageApproach: o[1] the posted SC_RESTORE reaches the window and
\* is processed within the settle delay (the result of PostMessage is only
\* logged), o[2] the asynchronous set, o[3] the same with HWND_NOTOPMOST.
tryPostMessageApproach(w, tgt, o) ==
    LET w1 == IF Ok(w, o, 1) THEN Restore(w) ELSE w
    IN IF Ok(w, o, 2)
       THEN Res(TRUE, PostPos(w1, tgt, FALSE),
                <<"PostMessage(SC_RESTORE)", "SetWindowPos(async)">>, FALSE)
       ELSE Res(Ok(w, o, 3), IF Ok(w, o, 3) THEN PostPos(w1, tgt, TRUE) ELSE w1,
                <<"PostMessage(SC_RESTORE)", "SetWindowPos(async)",
                  "SetWindowPos(async)">>, FALSE)

\* trySendMessageApproach: o[1] the sent SC_RESTORE is processed (the result
\* of SendMessage is only logged), o[2] SetWindowPos.
trySendMessageApproach(w, tgt, o) ==
    LET w1 == IF Ok(w, o, 1) THEN Restore(w) ELSE w
    IN Res(Ok(w, o, 2), IF Ok(w, o, 2) THEN SetPos(w1, tgt) ELSE w1,
           <<"SendMessage(SC_RESTORE)", "SetWindowPos">>, FALSE)

\* getWindowLong(hwnd, GWL_EXSTYLE): a value of 0 is reported as an error.
getWindowLongFails(w, o, i) == ~Ok(w, o, i) \/ w.exstyle = 0

\* tryIndirectApproach: o[1] getWindowLong(GWL_STYLE), o[2]
\* getWindowLong(GWL_EXSTYLE), o[3] the HWND_NOTOPMOST call made for a topmost
\* window, o[4] and o[5] the two asynchronous sets.
tryIndirectApproach(w, tgt, o) ==
    IF ~Ok(w, o, 1) THEN Res(FALSE, w, <<>>, FALSE)
    ELSE IF getWindowLongFails(w, o, 2) THEN Res(FALSE, w, <<>>, FALSE)
    ELSE IF HasTopmost(w.exstyle) /\ ~Ok(w, o, 3)
         THEN Res(FALSE, w, <<"SetWindowPos(HWND_NOTOPMOST)">>, FALSE)
    ELSE LET w1 == NoTopmost(w)
             c1 == IF HasTopmost(w.exstyle)
                   THEN <<"SetWindowPos(HWND_NOTOPMOST)">> ELSE <<>>
         IN IF Ok(w, o, 4)
            THEN Res(TRUE, PostPos(w1, tgt, FALSE),
                     c1 \o <<"SetWindowPos(async)">>, FALSE)
            ELSE Res(Ok(w, o, 5), IF Ok(w, o, 5) THEN PostPos(w1, tgt, FALSE) ELSE w1,
                     c1 \o <<"SetWindowPos(async)", "SetWindowPos(async)">>, FALSE)

\* tryCombinedApproach: o[1] ShowWindow(SW_MINIMIZE), o[2] SetWindowPos while
\* minimized, o[3] the last-error value left by that call is 0, o[4] the
\* SW_RESTORE after it takes effect (its result is not looked at), o[5]
\* GetWindowThreadProcessId, o[6] attach, o[7] SetWindowPos, o[8]
\* ShowWindow(SW_RESTORE).
tryCombinedApproach(w, tgt, o) ==
    LET m == Minimize(w)
        c2 == <<"ShowWindow(SW_MINIMIZE)", "SetWindowPos">>
        c7 == c2 \o <<"AttachThreadInput(attach)", "SetWindowPos",
                      "AttachThreadInput(detach)">>
    IN IF ~Ok(w, o, 1) THEN Res(FALSE, w, <<"ShowWindow(SW_MINIMIZE)">>, FALSE)
       ELSE IF Ok(w, o, 2) THEN
           IF ~o[3] THEN Res(FALSE, SetPos(m, tgt), c2, FALSE)
           ELSE Res(TRUE, IF Ok(w, o, 4) THEN Restore(SetPos(m, tgt)) ELSE SetPos(m, tgt),
                    c2 \o <<"ShowWindow(SW_RESTORE)">>, FALSE)
       ELSE IF ~Ok(w, o, 5) THEN Res(FALSE, m, c2, FALSE)
       ELSE IF ~Ok(w, o, 6)
            THEN Res(FALSE, m, c2 \o <<"AttachThreadInput(attach)">>, FALSE)
       ELSE IF ~Ok(w, o, 7) THEN Res(FALSE, m, c7, FALSE)
       ELSE IF ~Ok(w, o, 8)
            THEN Res(FALSE, SetPos(m, tgt), c7 \o <<"ShowWindow(SW_RESTORE)">>, FALSE)
       ELSE Res(TRUE, Restore(SetPos(m, tgt)),
                c7 \o <<"ShowWindow(SW_RESTORE)">>, FALSE)

\* tryAccessibilityApproach: o[1] AccessibleObjectFromWindow returns S_OK (the
\* object is released at once), o[2] and o[3] the two asynchronous sets.
tryAccessibilityApproach(w, tgt, o) ==
    IF ~Ok(w, o, 1) THEN Res(FALSE, w, <<>>, FALSE)
    ELSE IF Ok(w, o, 2)
         THEN Res(TRUE, PostPos(w, tgt, FALSE), <<"SetWindowPos(async)">>, FALSE)
    ELSE Res(Ok(w, o, 3), IF Ok(w, o, 3) THEN PostPos(w, tgt, FALSE) ELSE w,
             <<"SetWindowPos(async)", "SetWindowPos(async)">>, FALSE)

\* tryWindowsAutomationApproach: o[1] and o[2] the two asynchronous sets.
tryWindowsAutomationApproach(w, tgt, o) ==
    IF Ok(w, o, 1)
    THEN Res(TRUE, PostPos(w, tgt, FALSE), <<"SetWindowPos(async)">>, FALSE)
    ELSE Res(Ok(w, o, 2), IF Ok(w, o, 2) THEN PostPos(w, tgt, FALSE) ELSE w,
             <<"SetWindowPos(async)", "SetWindowPos(async)">>, FALSE)

(***************************************************************************)
(* MoveWindowAccurate                                                      *)
(***************************************************************************)
\* A chain in which the message strategies come before the asynchronous one.
Chain_reordered ==
    <<"trySetWindowPos", "tryAttachThreadInputForSetPos",
      "tryMinimizeRestoreForSetPos", "trySetWindowPlacementForSetPos",
      "tryPostMessageApproach", "trySendMessageApproach", "tryAsyncWindowPos",
      "tryIndirectApproach", "tryCombinedApproach", "tryAccessibilityApproach",
      "tryWindowsAutomationApproach">>

\* The strategies in the order MoveWindowAccurate tries them.
Chain ==
    <<"trySetWindowPos", "tryAttachThreadInputForSetPos",
      "tryMinimizeRestoreForSetPos", "trySetWindowPlacementForSetPos",
      "tryAsyncWindowPos", "tryPostMessageApproach", "trySendMessageApproach",
      "tryIndirectApproach", "tryCombinedApproach", "tryAccessibilityApproach",
      "tryWindowsAutomationApproach">>

IndexOf(name) == CHOOSE i \in 1..Len(Chain) : Chain[i] = name

\* A chain that goes on to the next strategy whatever the last one returned.
AfterStrategy_noReturn(name, ok) ==
    IF IndexOf(name) = Len(Chain) THEN "done" ELSE Chain[IndexOf(name) + 1]

\* A chain that a failing strategy ends.
AfterStrategy_failFast(name, ok) == "done"

\* `if tryX(...) { return nil }`, else on to the next strategy; after the
\* last one `return fmt.Errorf(...)`.
AfterStrategy(name, ok) ==
    IF ok \/ IndexOf(name) = Len(Chain) THEN "done" ELSE Chain[IndexOf(name) + 1]

\* pos.X == x && pos.Y == y && pos.Width == width && pos.Height == height
AlreadyThere(pos, tgt) ==
    pos.x = tgt.x /\ pos.y = tgt.y /\ pos.width = tgt.width /\ pos.height = tgt.height

\* An entry that goes on without validating the handle.
MoveEntry_noValidation(w, tgt, readOk) ==
    IF ~readOk THEN [pc |-> "done", result |-> "error"]
    ELSE IF AlreadyThere(w.rect, tgt) THEN [pc |-> "done", result |-> "nil"]
    ELSE [pc |-> Chain[1], result |-> "none"]

\* The entry of MoveWindowAccurate: isValidWindow, getWindowPosition (readOk:
\* its GetWindowRect succeeds), the comparison with the target.
MoveEntry(w, tgt, readOk) ==
    IF ~w.valid THEN [pc |-> "done", result |-> "error"]
    ELSE IF ~readOk THEN [pc |-> "done", result |-> "error"]
    ELSE IF AlreadyThere(w.rect, tgt) THEN [pc |-> "done", result |-> "nil"]
    ELSE [pc |-> Chain[1], result |-> "none"]

MoveWindowAccurate_Begin ==
    /\ mpc \in {"idle", "done"}
    /\ nmoves > 0
    /\ nmoves' = nmoves - 1
    /\ \E tgt \in Targets, readOk \in BOOLEAN :
          LET e == MoveEntry(win, tgt, readOk)
          IN /\ mtarget' = tgt
             /\ mpc' = e.pc
             /\ mresult' = e.result
             /\ atTarget' = (win.valid /\ readOk /\ win.rect = tgt)
             /\ repeated' = (mpc = "done" /\ mresult = "nil" /\ mtarget = tgt /\ quiet)
    /\ invoked' = <<>>
    /\ outcomes' = <<>>
    /\ mcalls' = <<>>
    /\ mutated' = FALSE
    /\ quiet' = TRUE
    /\ rectAtReturn' = win.rect
    /\ showBefore' = win.show
    /\ showAfter' = win.show
    /\ UNCHANGED <<winVars, focusVars, storeVars, managerVars, enumVars, lockVars>>

\* One strategy of the chain, run to its return, and the `if` around it.
MoveStrategy(name, n, Try(_, _, _)) ==
    \E o \in [1..n -> BOOLEAN] :
        LET r == Try(win, mtarget, o)
            next == AfterStrategy(name, r.ret)
        IN /\ win' = r.win
           /\ attached' = IF r.att THEN attached \cup {"move"} ELSE attached
           /\ mcalls' = r.calls
           /\ mutated' = (mutated \/ r.calls # <<>>)
           /\ invoked' = Append(invoked, name)
           /\ outcomes' = Append(outcomes, r.ret)
           /\ showBefore' = win.show
           /\ showAfter' = r.win.show
           /\ mpc' = next
           /\ mresult' = IF next # "done" THEN "none"
                         ELSE IF r.ret THEN "nil" ELSE "error"
           /\ rectAtReturn' = r.win.rect
           /\ quiet' = TRUE
           /\ UNCHANGED <<mtarget, atTarget, repeated, nmoves, focusVars, storeVars, managerVars, enumVars, lockVars>>

Step_trySetWindowPos ==
    /\ mpc = "trySetWindowPos"
    /\ MoveStrategy("trySetWindowPos", 1, trySetWindowPos)

Step_tryAttachThreadInputForSetPos ==
    /\ mpc = "tryAttachThreadInputForSetPos"
    /\ MoveStrategy("tryAttachThreadInputForSetPos", 3, tryAttachThreadInputForSetPos)

Step_tryMinimizeRestoreForSetPos ==
    /\ mpc = "tryMinimizeRestoreForSetPos"
    /\ MoveStrategy("tryMinimizeRestoreForSetPos", 4, tryMinimizeRestoreForSetPos)

Step_trySetWindowPlacementForSetPos ==
    /\ mpc = "trySetWindowPlacementForSetPos"
    /\ MoveStrategy("trySetWindowPlacementForSetPos", 3, trySetWindowPlacementForSetPos)

Step_tryAsyncWindowPos ==
    /\ mpc = "tryAsyncWindowPos"
    /\ MoveStrategy("tryAsyncWindowPos", 2, tryAsyncWindowPos)

Step_tryPostMessageApproach ==
    /\ mpc = "tryPostMessageApproach"
    /\ MoveStrategy("tryPostMessageApproach", 3, tryPostMessageApproach)

\* SendMessageW "waits for the result": the call returns once the thread
\* that owns the window has processed the message, so it does not return
\* while that thread is hung.
Step_trySendMessageApproach ==
    /\ mpc = "trySendMessageApproach"
    /\ ~(win.valid /\ win.hung)
    /\ MoveStrategy("trySendMessageApproach", 2, trySendMessageApproach)

Step_tryIndirectApproach ==
    /\ mpc = "tryIndirectApproach"
    /\ MoveStrategy("tryIndirectApproach", 5, tryIndirectApproach)

Step_tryCombinedApproach ==
    /\ mpc = "tryCombinedApproach"
    /\ MoveStrategy("tryCombinedApproach", 8, tryCombinedApproach)

Step_tryAccessibilityApproach ==
    /\ mpc = "tryAccessibilityApproach"
    /\ MoveStrategy("tryAccessibilityApproach", 3, tryAccessibilityApproach)

Step_tryWindowsAutomationApproach ==
    /\ mpc = "tryWindowsAutomationApproach"
    /\ MoveStrategy("tryWindowsAutomationApproach", 2, tryWindowsAutomationApproach)

\* The strategies of a call that has begun.
MoveSteps ==
    \/ Step_trySetWindowPos
    \/ Step_tryAttachThreadInputForSetPos
    \/ Step_tryMinimizeRestoreForSetPos
    \/ Step_trySetWindowPlacementForSetPos
    \/ Step_tryAsyncWindowPos
    \/ Step_tryPostMessageApproach
    \/ Step_trySendMessageApproach
    \/ Step_tryIndirectApproach
    \/ Step_tryCombinedApproach
    \/ Step_tryAccessibilityApproach
    \/ Step_tryWindowsAutomationApproach

MoveNext == MoveWindowAccurate_Begin \/ MoveSteps

(***************************************************************************)
(* focusWindow                                                             *)
(***************************************************************************)
RECT(l, t, r, b) == [Left |-> l, Top |-> t, Right |-> r, Bottom |-> b]
ToRECT(p) == RECT(p.x, p.y, p.x + p.width, p.y + p.height)

\* getVirtualScreenRect and getPrimaryDisplayRect for a 1920x1080 primary
\* display with a second display of the same size to its left.
VirtualScreen == RECT(-1920, 0, 1920, 1080)
PrimaryDisplay == RECT(0, 0, 1920, 1080)

\* Go's integer division truncates toward zero.
TruncDiv(a, b) == IF a >= 0 THEN a \div b ELSE -((-a) \div b)

isRectOnScreen(rect, virtualScreen) ==
    ~(\/ rect.Right < virtualScreen.Left
      \/ rect.Left > virtualScreen.Right
      \/ rect.Bottom < virtualScreen.Top
      \/ rect.Top > virtualScreen.Bottom)

\* The rectangle focusWindow moves an off-screen window to.
Recentered(p) ==
    WindowPosition(
        PrimaryDisplay.Left
            + TruncDiv((PrimaryDisplay.Right - PrimaryDisplay.Left) - p.width, 2),
        PrimaryDisplay.Top
            + TruncDiv((PrimaryDisplay.Bottom - PrimaryDisplay.Top) - p.height, 2),
        p.width, p.height)

\* A chain with the last two methods in the other order.
FocusChain_swapped ==
    <<"trySetForegroundWindow", "tryAttachThreadInput",
      "tryAllowSetForegroundWindow", "tryMinimizeRestore">>

\* The methods in the order focusWindow tries them.
FocusChain ==
    <<"trySetForegroundWindow", "tryAttachThreadInput", "tryMinimizeRestore",
      "tryAllowSetForegroundWindow">>

FocusIndexOf(name) == CHOOSE i \in 1..Len(FocusChain) : FocusChain[i] = name

AfterMethod(name, ok) ==
    IF ok \/ FocusIndexOf(name) = Len(FocusChain) THEN "done"
    ELSE FocusChain[FocusIndexOf(name) + 1]

\* trySetForegroundWindow
trySetForegroundWindow(w, o) ==
    Res(Ok(w, o, 1), w, <<"SetForegroundWindow">>, FALSE)

\* tryAttachThreadInput: o[1] GetWindowThreadProcessId, o[2] attach, o[3]
\* SetForegroundWindow, o[4] the SetWindowPos that only raises the window;
\* the detach is deferred.
tryAttachThreadInput(w, o) ==
    IF ~Ok(w, o, 1) THEN Res(FALSE, w, <<>>, FALSE)
    ELSE IF ~Ok(w, o, 2) THEN Res(FALSE, w, <<"AttachThreadInput(attach)">>, FALSE)
    ELSE IF Ok(w, o, 3)
         THEN Res(TRUE, w, <<"AttachThreadInput(attach)", "SetForegroundWindow",
                             "AttachThreadInput(detach)">>, FALSE)
    ELSE Res(Ok(w, o, 4), w,
             <<"AttachThreadInput(attach)", "SetForegroundWindow",
               "SetWindowPos(raise)", "AttachThreadInput(detach)">>, FALSE)

\* tryMinimizeRestore: o[1] GetWindowPlacement, o[2] and o[3] ShowWindow,
\* o[4] SetForegroundWindow.
tryMinimizeRestore(w, o) ==
    IF ~Ok(w, o, 1) THEN Res(FALSE, w, <<>>, FALSE)
    ELSE IF w.show = "min" THEN
        IF ~Ok(w, o, 2) THEN Res(FALSE, w, <<"ShowWindow(SW_RESTORE)">>, FALSE)
        ELSE Res(Ok(w, o, 4), Restore(w),
                 <<"ShowWindow(SW_RESTORE)", "SetForegroundWindow">>, FALSE)
    ELSE
        IF ~Ok(w, o, 2) THEN Res(FALSE, w, <<"ShowWindow(SW_MINIMIZE)">>, FALSE)
        ELSE IF ~Ok(w, o, 3)
             THEN Res(FALSE, Minimize(w),
                      <<"ShowWindow(SW_MINIMIZE)", "ShowWindow(SW_RESTORE)">>, FALSE)
        ELSE Res(Ok(w, o, 4), Restore(Minimize(w)),
                 <<"ShowWindow(SW_MINIMIZE)", "ShowWindow(SW_RESTORE)",
                   "SetForegroundWindow">>, FALSE)

\* tryAllowSetForegroundWindow: o[1] GetWindowThreadProcessId, o[2]
\* AllowSetForegroundWindow, o[3] SetForegroundWindow.
tryAllowSetForegroundWindow(w, o) ==
    IF ~Ok(w, o, 1) THEN Res(FALSE, w, <<>>, FALSE)
    ELSE IF ~Ok(w, o, 2) THEN Res(FALSE, w, <<"AllowSetForegroundWindow">>, FALSE)
    ELSE Res(Ok(w, o, 3), w,
             <<"AllowSetForegroundWindow", "SetForegroundWindow">>, FALSE)

\* No rectangle was read.
NoEntry == [rect |-> NoPos, recenter |-> "none"]

\* The entry of focusWindow: isValidWindow, GetWindowRect (readOk), and the
\* recentering of a window outside the virtual screen (moveOk: its
\* SetWindowPos succeeds; a failure is only logged).
focusWindow_Begin ==
    /\ fpc \in {"idle", "done"}
    /\ nfocus > 0
    /\ nfocus' = nfocus - 1
    /\ finvoked' = <<>>
    /\ foutcomes' = <<>>
    /\ \E readOk \in BOOLEAN, moveOk \in BOOLEAN :
          IF ~win.valid \/ ~readOk
          THEN /\ fpc' = "done"
               /\ fresult' = "error"
               /\ fcalls' = <<>>
               /\ fentry' = NoEntry
               /\ UNCHANGED <<win, quiet>>
          ELSE /\ fpc' = FocusChain[1]
               /\ fresult' = "none"
               /\ IF isRectOnScreen(ToRECT(win.rect), VirtualScreen)
                  THEN /\ fcalls' = <<>>
                       /\ fentry' = [rect |-> win.rect, recenter |-> "none"]
                       /\ UNCHANGED <<win, quiet>>
                  ELSE /\ fcalls' = <<"SetWindowPos">>
                       /\ fentry' = [rect |-> win.rect,
                                     recenter |-> IF moveOk THEN "done" ELSE "failed"]
                       /\ win' = IF moveOk THEN SetPos(win, Recentered(win.rect)) ELSE win
                       /\ quiet' = FALSE
    /\ UNCHANGED <<attached, mpc, mtarget, mresult, invoked, outcomes, mcalls, mutated,
                   atTarget, repeated, rectAtReturn, showBefore, showAfter,
                   nmoves, storeVars, managerVars, enumVars, lockVars>>

\* One method of focusWindow, run to its return, and the `if` around it.
FocusMethod(name, n, Try(_, _)) ==
    \E o \in [1..n -> BOOLEAN] :
        LET r == Try(win, o)
            next == AfterMethod(name, r.ret)
        IN /\ win' = r.win
           /\ attached' = IF r.att THEN attached \cup {"focus"} ELSE attached
           /\ fcalls' = r.calls
           /\ finvoked' = Append(finvoked, name)
           /\ foutcomes' = Append(foutcomes, r.ret)
           /\ fpc' = next
           /\ fresult' = IF next # "done" THEN "none"
                         ELSE IF r.ret THEN "nil" ELSE "error"
           /\ quiet' = FALSE
           /\ UNCHANGED <<mpc, mtarget, mresult, invoked, outcomes, mcalls, mutated,
                          atTarget, repeated, rectAtReturn, showBefore, showAfter,
                          nmoves, nfocus, fentry, storeVars, managerVars, enumVars, lockVars>>

Step_trySetForegroundWindow ==
    /\ fpc = "trySetForegroundWindow"
    /\ FocusMethod("trySetForegroundWindow", 1, trySetForegroundWindow)

Step_tryAttachThreadInput ==
    /\ fpc = "tryAttachThreadInput"
    /\ FocusMethod("tryAttachThreadInput", 4, tryAttachThreadInput)

Step_tryMinimizeRestore ==
    /\ fpc = "tryMinimizeRestore"
    /\ FocusMethod("tryMinimizeRestore", 4, tryMinimizeRestore)

Step_tryAllowSetForegroundWindow ==
    /\ fpc = "tryAllowSetForegroundWindow"
    /\ FocusMethod("tryAllowSetForegroundWindow", 3, tryAllowSetForegroundWindow)

FocusNext ==
    \/ focusWindow_Begin
    \/ Step_trySetForegroundWindow
    \/ Step_tryAttachThreadInput
    \/ Step_tryMinimizeRestore
    \/ Step_tryAllowSetForegroundWindow

(***************************************************************************)
(* The window's owner                                                      *)
(***************************************************************************)
\* The thread that owns the window processes the posted positioning request.
OwnerProcessesRequest ==
    /\ win.valid
    /\ win.pending.set
    /\ win' = [win EXCEPT !.rect = win.pending.rect,
                          !.exstyle = IF win.pending.clearTop
                                      THEN ClearTopmost(win.exstyle) ELSE win.exstyle,
                          !.pending = NoPending]
    /\ quiet' = FALSE
    /\ UNCHANGED <<attached, mpc, mtarget, mresult, invoked, outcomes, mcalls, mutated,
                   atTarget, repeated, rectAtReturn, showBefore, showAfter,
                   nmoves, focusVars, storeVars, managerVars, enumVars, lockVars>>

\* The thread that owns the window stops processing its messages, and
\* starts again.
OwnerHangs ==
    /\ win.valid
    /\ ~win.hung
    /\ win' = [win EXCEPT !.hung = TRUE]
    /\ UNCHANGED <<attached, moveVars, focusVars, storeVars, managerVars, enumVars, lockVars>>

OwnerResponds ==
    /\ win.hung
    /\ win' = [win EXCEPT !.hung = FALSE]
    /\ UNCHANGED <<attached, moveVars, focusVars, storeVars, managerVars, enumVars, lockVars>>

\* The owner destroys the window: the handle is stale from then on.
DestroyWindow ==
    /\ win.valid
    /\ win' = [win EXCEPT !.valid = FALSE, !.pending = NoPending]
    /\ quiet' = FALSE
    /\ UNCHANGED <<attached, mpc, mtarget, mresult, invoked, outcomes, mcalls, mutated,
                   atTarget, repeated, rectAtReturn, showBefore, showAfter,
                   nmoves, focusVars, storeVars, managerVars, enumVars, lockVars>>

WindowStates ==
    {w \in [rect : WinRects, show : ShowStates, restoreTo : {"normal", "max"},
            exstyle : ExStyles, pending : {NoPending}, valid : {TRUE}, hung : {FALSE}] :
        w.show # "min" => w.restoreTo = w.show}

EngineIdle ==
    /\ attached = {}
    /\ mpc = "idle"
    /\ mtarget = NoPos
    /\ mresult = "none"
    /\ invoked = <<>>
    /\ outcomes = <<>>
    /\ mcalls = <<>>
    /\ mutated = FALSE
    /\ atTarget = FALSE
    /\ repeated = FALSE
    /\ quiet = FALSE
    /\ rectAtReturn = NoPos
    /\ showBefore = "normal"
    /\ showAfter = "normal"
    /\ fpc = "idle"
    /\ fresult = "none"
    /\ finvoked = <<>>
    /\ fcalls = <<>>
    /\ foutcomes = <<>>
    /\ fentry = NoEntry

NoWindow ==
    [rect |-> NoPos, show |-> "normal", restoreTo |-> "normal", exstyle |-> 0,
     pending |-> NoPending, valid |-> FALSE, hung |-> FALSE]

\* The calls still to come: the window is handed to one of the two engines
\* or to the save button of its row.
CallsToCome ==
    \/ nmoves = MaxMoves /\ nfocus = 0
    \/ nmoves = 0 /\ nfocus = MaxFocus
    \/ nmoves = 0 /\ nfocus = 0

EngineInit ==
    /\ win \in WindowStates
    /\ EngineIdle
    /\ CallsToCome

EngineNext == MoveNext \/ FocusNext \/ OwnerProcessesRequest \/ DestroyWindow

(***************************************************************************)
(* Window enumeration and the identity key                                 *)
(***************************************************************************)
\* A top-level window as EnumWindows hands it to the callback.
OsWindow(h, valid, visible, title, class, exe, style, exstyle, rect) ==
    [Handle |-> h, valid |-> valid, visible |-> visible, Title |-> title,
     ClassName |-> class, Executable |-> exe, Style |-> style,
     ExStyle |-> exstyle, WindowRect |-> rect]

\* The top-level windows of the desktop, in the order EnumWindows visits
\* them: two titled windows, an untitled one, one 8 px wide, the
\* application's own window 9 px wide and high, an invisible one, and a
\* second window with the identity of the first.
Desktop ==
    <<OsWindow(1, TRUE, TRUE, "A", "B", "C", 0, 0, RECT(0, 0, 800, 600)),
      OsWindow(2, TRUE, TRUE, "", "B", "C", 0, 0, RECT(10, 10, 650, 490)),
      OsWindow(3, TRUE, TRUE, "T", "K", "E", 349110272, 256, RECT(-1920, -8, -640, 1016)),
      OsWindow(4, TRUE, TRUE, "A", "B", "C", 0, 0, RECT(0, 0, 8, 600)),
      OsWindow(5, TRUE, TRUE, "Lancer's WindowPositioner 1.3.1", "K", "E", 0, 256,
               RECT(0, 0, 9, 9)),
      OsWindow(6, TRUE, FALSE, "T", "K", "E", 349110272, 256, RECT(0, 0, 800, 600)),
      OsWindow(7, TRUE, TRUE, "A", "B", "C", 0, 0, RECT(50, 50, 850, 650))>>

\* getWindowInfo: the snapshot of a window.
getWindowInfo(w) ==
    [Handle |-> w.Handle, Title |-> w.Title, ClassName |-> w.ClassName,
     Executable |-> w.Executable, Style |-> w.Style, ExStyle |-> w.ExStyle,
     WindowRect |-> w.WindowRect]

\* A callback that also asks for a title.
Qualifies_titled(w) ==
    /\ w.Handle # 0 /\ w.valid
    /\ w.visible
    /\ w.Title # ""
    /\ w.WindowRect.Right - w.WindowRect.Left > 8
    /\ w.WindowRect.Bottom - w.WindowRect.Top > 8

\* enumWindowsCallbackFunc appends the snapshot of hwnd: a valid, visible
\* window more than 8 px wide and high.
Qualifies(w) ==
    /\ w.Handle # 0 /\ w.valid
    /\ w.visible
    /\ w.WindowRect.Right - w.WindowRect.Left > 8
    /\ w.WindowRect.Bottom - w.WindowRect.Top > 8

\* The accumulation buffer after the callback has run on the first n windows.
RECURSIVE enumeratedWindows(_, _)
enumeratedWindows(ws, n) ==
    IF n = 0 THEN <<>>
    ELSE IF Qualifies(ws[n])
         THEN Append(enumeratedWindows(ws, n - 1), getWindowInfo(ws[n]))
         ELSE enumeratedWindows(ws, n - 1)

\* EnumerateWindows: the error of a failed EnumWindows, else a copy of the
\* accumulation buffer.
EnumerateWindows(ws, enumOk) ==
    IF enumOk THEN [err |-> FALSE, windows |-> enumeratedWindows(ws, Len(ws))]
    ELSE [err |-> TRUE, windows |-> <<>>]

HexDigits ==
    <<"0", "1", "2", "3", "4", "5", "6", "7", "8", "9", "A", "B", "C", "D", "E", "F">>

\* %X of an unsigned value.
RECURSIVE FormatHex(_)
FormatHex(n) ==
    IF n < 16 THEN HexDigits[n + 1]
    ELSE FormatHex(n \div 16) \o HexDigits[(n % 16) + 1]

\* Zero padding to a minimum width.
RECURSIVE PadZero(_, _)
PadZero(str, width) == IF Len(str) >= width THEN str ELSE PadZero("0" \o str, width)

\* fmt.Sprintf("%s|%s|%s|0x%08X|0x%08X", ...)
Sprintf_identifier(title, class, exe, style, exstyle) ==
    title \o "|" \o class \o "|" \o exe
          \o "|0x" \o PadZero(FormatHex(style), 8)
          \o "|0x" \o PadZero(FormatHex(exstyle), 8)

\* The identifier saveWindowPosition stores a position under.
saveIdentifier(window) ==
    Sprintf_identifier(window.Title, window.ClassName, window.Executable,
                       window.Style, window.ExStyle)

\* A pass that puts the class name first.
passIdentifier_classFirst(window) ==
    Sprintf_identifier(window.ClassName, window.Title, window.Executable,
                       window.Style, window.ExStyle)

\* The identifier repositionSavedWindows looks a window up by.
passIdentifier(window) ==
    Sprintf_identifier(window.Title, window.ClassName, window.Executable,
                       window.Style, window.ExStyle)

(***************************************************************************)
(* The window manager: refresh, save, reconciliation passes, the periodic  *)
(* loop and its cancellation                                               *)
(***************************************************************************)
MaxTime == 5
MaxPasses == 2
MaxUiOps == 1

\* time.Sleep(2 * time.Second) and time.NewTicker(5 * time.Second), in seconds.
GraceDelay == 2
TickPeriod == 5

strAppTitle == "Lancer's WindowPositioner 1.3.1"

\* The goroutines: the startup pass, startMonitoringService, and the UI
\* callbacks.
Goroutines == {"startup", "monitor", "ui"}
PassGoroutines == {"startup", "monitor"}

\* The filter of refreshWindowList.
RECURSIVE filteredWindows(_)
filteredWindows(ws) ==
    IF ws = <<>> THEN <<>>
    ELSE LET rest == filteredWindows(SubSeq(ws, 1, Len(ws) - 1))
             window == ws[Len(ws)]
         IN IF window.Title # "" /\ window.Title # strAppTitle
            THEN Append(rest, window) ELSE rest

\* getWindowPosition: an error for a handle that isValidWindow rejects or
\* whose GetWindowRect fails, else the rectangle as x, y, width, height.
getWindowPosition(valid, rectOk, rect) ==
    IF ~valid \/ ~rectOk THEN [err |-> TRUE, pos |-> NoPos]
    ELSE [err |-> FALSE,
          pos |-> WindowPosition(rect.Left, rect.Top,
                                 rect.Right - rect.Left, rect.Bottom - rect.Top)]

\* What a window of the cached list may be when the save button is
\* pressed: as it was enumerated, collapsed by its owner to no width, or
\* destroyed.
LiveWindows(window) ==
    {[valid |-> TRUE, rect |-> window.WindowRect],
     [valid |-> TRUE, rect |-> [window.WindowRect EXCEPT !.Right = window.WindowRect.Left]],
     [valid |-> FALSE, rect |-> window.WindowRect]}

\* The store a previous run left: a position of window 1 as
\* saveWindowPosition stored it.
PreviousRun ==
    SetEntry(EmptyMap, saveIdentifier(getWindowInfo(Desktop[1])),
             WindowPosition(100, 100, 800, 600))

\* The five identity fields of a snapshot.
IdentityFields(window) ==
    <<window.Title, window.ClassName, window.Executable, window.Style, window.ExStyle>>

\* What a save leaves behind: the identity fields of the snapshot and the
\* identifier the position went under.
SavedFrom(window) == [fields |-> IdentityFields(window), key |-> saveIdentifier(window)]

\* saveWindowPosition: p is what getWindowPosition returned, r what loadAll
\* returns inside SavePosition, written whether saveAll succeeds.  A
\* failure is logged and ends the call.
saveWindowPosition(window, p, r, written) ==
    IF p.err THEN [ret |-> "error", write |-> FALSE, map |-> EmptyMap]
    ELSE LET a == AfterLoad(StoreOp("Save", saveIdentifier(window), p.pos), r)
         IN IF a.pc = "saveAll" /\ written
            THEN [ret |-> "nil", write |-> TRUE, map |-> a.map]
            ELSE [ret |-> "error", write |-> FALSE, map |-> EmptyMap]

\* saveWindowPosition on the row of the one window the engines act on: the
\* row is a snapshot taken earlier, the position is read from the window
\* as it is now.
saveWindowPosition_OnWindow ==
    /\ nmoves = 0 /\ nfocus = 0
    /\ mpc = "idle" /\ fpc = "idle"
    /\ uiRet = "none"
    /\ \E rectOk \in BOOLEAN, fail \in BOOLEAN, written \in BOOLEAN :
          LET p == getWindowPosition(win.valid, rectOk, ToRECT(win.rect))
              c == saveWindowPosition(getWindowInfo(Desktop[1]), p, loadAllResult(fail), written)
          IN /\ uiRet' = c.ret
             /\ storageFile' = IF c.write THEN MarshalIndent(c.map) ELSE storageFile
    /\ UNCHANGED <<engineVars, tmpFile, mu, spc, sop, positions, sret, ioerr, seen, hist,
                   lastRename, committed, crashed, ncalls, enumVars, lockVars>>
    /\ UNCHANGED <<gpc, operationMutex, wmWindows, passPositions, passWindows, passIdx,
                   attempts, passLog, now, nextTick, tickPending, ctxDone, exited,
                   cacheBefore, refreshErr, savedFields, nui, expected, passLoadErr,
                   passExpected, lastFailure>>

\* The delete button: DeletePosition(key).
deletePosition(key, r, written) ==
    LET a == AfterLoad(StoreOp("Delete", key, NoPos), r)
    IN IF a.pc = "saveAll" /\ written
       THEN [ret |-> "nil", write |-> TRUE, map |-> a.map]
       ELSE [ret |-> "error", write |-> FALSE, map |-> EmptyMap]

NoFailure == [Handle |-> 0, result |-> "none"]

\* The last attempt of a pass that did not return nil, else what was
\* recorded before.
RECURSIVE LastFailureOf(_, _)
LastFailureOf(as, before) ==
    IF as = <<>> THEN before
    ELSE IF as[Len(as)].result # "nil"
         THEN [Handle |-> as[Len(as)].Handle, result |-> as[Len(as)].result]
         ELSE LastFailureOf(SubSeq(as, 1, Len(as) - 1), before)

\* A panic that leaves the mutex locked.
AfterPanic_stillLocked(holder) == holder

\* A panic inside repositionSavedWindows runs the deferred Unlock, then the
\* deferred panicHandler recovers it.
AfterPanic(holder) == NoTask

\* A pass that skips a window whose last reposition failed.
Eligible_skipFailed(handle, failure) == failure.Handle # handle

\* The loop body looks at the identifier and the positions only: nothing
\* about earlier passes is kept.
Eligible(handle, failure) == TRUE

\* A lookup that hands out no position.
SavedPosition_none(m, identifier) == NoPos

\* pos of `if pos, exists := positions[identifier]; exists`.
SavedPosition(m, identifier) == m[identifier]

\* A loop that a failed reposition ends.
AfterWindow_abort(i, n, result) == IF result \in {"error", "panic"} THEN n ELSE i

\* `for _, window := range windows`: after window i of n the loop goes on
\* with the next one whatever MoveWindowAccurate did; a panic is recovered
\* by the deferred panicHandler of the loop body.
AfterWindow(i, n, result) == i

\* A lock that is handed out while it is held.
Lockable_always(holder) == TRUE

\* sync.Mutex.Lock returns only when the mutex is free.
Lockable(holder) == holder = NoTask

\* A refresh that enumerates before it touches the cache.
ClearedCache_keep(cache) == cache

\* refreshWindowList starts with wm.setWindows([]WindowInfo{}).
ClearedCache(cache) == <<>>

\* select over ctx.Done() and ticker.C: the cases that can proceed; one of
\* them is chosen.
SelectCases(done, tick) ==
    (IF done THEN {"ctx.Done"} ELSE {}) \cup (IF tick THEN {"ticker.C"} ELSE {})


\* The manager before main starts its goroutines: NewWindowManager has
\* built the main window, whose content ends with a first refresh.
ManagerIdle ==
    /\ gpc = [g \in Goroutines |-> "off"]
    /\ operationMutex = NoTask
    /\ wmWindows = <<>>
    /\ passPositions = EmptyMap
    /\ passWindows = <<>>
    /\ passIdx = 0
    /\ attempts = <<>>
    /\ passLog = <<>>
    /\ now = 0
    /\ nextTick = TickPeriod
    /\ tickPending = FALSE
    /\ ctxDone = FALSE
    /\ exited = FALSE
    /\ cacheBefore = <<>>
    /\ refreshErr = FALSE
    /\ savedFields = {}
    /\ nui = 0
    /\ uiRet = "none"
    /\ expected = EmptyMap
    /\ passLoadErr = FALSE
    /\ passExpected = EmptyMap
    /\ lastFailure = NoFailure

\* main after `go wm.startMonitoringService(ctx)` and the `go func()` of
\* the startup pass: the store file is absent, the one a previous run
\* left, or not a JSON document; the cache is what the first refresh, which
\* succeeded, made of the desktop.
ManagerInit ==
    /\ gpc = [g \in Goroutines |->
                 IF g = "startup" THEN "sleep" ELSE IF g = "monitor" THEN "select" ELSE "idle"]
    /\ operationMutex = NoTask
    /\ wmWindows = filteredWindows(EnumerateWindows(Desktop, TRUE).windows)
    /\ passPositions = EmptyMap
    /\ passWindows = <<>>
    /\ passIdx = 0
    /\ attempts = <<>>
    /\ passLog = <<>>
    /\ now = 0
    /\ nextTick = TickPeriod
    /\ tickPending = FALSE
    /\ ctxDone = FALSE
    /\ exited = FALSE
    /\ cacheBefore = <<>>
    /\ refreshErr = FALSE
    /\ \E file \in {AbsentFile, MarshalIndent(PreviousRun), PartialFile} :
          /\ storageFile = file
          /\ savedFields = IF file.kind # "doc" THEN {}
                           ELSE {SavedFrom(getWindowInfo(Desktop[1]))}
          /\ expected = IF file.kind # "doc" THEN EmptyMap ELSE PreviousRun
    /\ nui = MaxUiOps
    /\ uiRet = "none"
    /\ passLoadErr = FALSE
    /\ passExpected = EmptyMap
    /\ lastFailure = NoFailure

passUnchanged ==
    UNCHANGED <<passPositions, passWindows, passIdx, attempts, passLoadErr, passExpected,
                lastFailure>>
clockUnchanged == UNCHANGED <<now, nextTick, tickPending>>
uiUnchanged ==
    UNCHANGED <<wmWindows, cacheBefore, refreshErr, savedFields, nui, uiRet, expected>>

\* The timer that is due next after now: the end of the grace delay or
\* the next tick.
NextDeadline == IF now < GraceDelay THEN GraceDelay ELSE nextTick

\* Time passes until the next timer is due; a goroutine may run later than
\* its timer, the ticker sends when its period is over.
AdvanceTime ==
    /\ ~exited
    /\ now < nextTick
    /\ NextDeadline <= MaxTime
    /\ now' = NextDeadline
    /\ UNCHANGED <<gpc, operationMutex, passLog, nextTick, tickPending, ctxDone, exited,
                   storeVars, engineVars, enumVars, lockVars>>
    /\ passUnchanged /\ uiUnchanged

\* The ticker sends on ticker.C, a channel of capacity one: a tick that
\* finds one waiting is dropped.
TickerFires ==
    /\ ~exited
    /\ now >= nextTick
    /\ tickPending' = TRUE
    /\ nextTick' = nextTick + TickPeriod
    /\ UNCHANGED <<gpc, operationMutex, passLog, now, ctxDone, exited, storeVars, engineVars, enumVars, lockVars>>
    /\ passUnchanged /\ uiUnchanged

\* cancel(): the signal handler's, or main's deferred one.
Cancel ==
    /\ ~exited
    /\ ~ctxDone
    /\ ctxDone' = TRUE
    /\ UNCHANGED <<gpc, operationMutex, passLog, exited, storeVars, engineVars, enumVars, lockVars>>
    /\ passUnchanged /\ uiUnchanged /\ clockUnchanged

\* After cancel() the event loop ends and main returns: the process and
\* its goroutines end wherever they are.
Exit ==
    /\ ctxDone
    /\ ~exited
    /\ exited' = TRUE
    /\ UNCHANGED <<gpc, operationMutex, passLog, ctxDone, storeVars, engineVars, enumVars, lockVars>>
    /\ passUnchanged /\ uiUnchanged /\ clockUnchanged

\* A call of repositionSavedWindows by goroutine g.
CallPass(g) ==
    /\ gpc' = [gpc EXCEPT ![g] = "lock"]
    /\ passLog' = Append(passLog, [who |-> g, at |-> now, afterCancel |-> ctxDone])

\* The startup goroutine returns from time.Sleep, which pauses it for at
\* least the grace delay, and calls repositionSavedWindows.
startup_Wake ==
    /\ ~exited
    /\ gpc["startup"] = "sleep"
    /\ now >= GraceDelay
    /\ CallPass("startup")
    /\ UNCHANGED <<operationMutex, ctxDone, exited, storeVars, engineVars, enumVars, lockVars>>
    /\ passUnchanged /\ uiUnchanged /\ clockUnchanged

\* startMonitoringService: one round of `select`.
monitor_Select ==
    /\ ~exited
    /\ gpc["monitor"] = "select"
    /\ \E case \in SelectCases(ctxDone, tickPending) :
          IF case = "ctx.Done"
          THEN /\ gpc' = [gpc EXCEPT !["monitor"] = "returned"]
               /\ UNCHANGED <<passLog, tickPending>>
          ELSE /\ Len(passLog) < MaxPasses
               /\ CallPass("monitor")
               /\ tickPending' = FALSE
    /\ UNCHANGED <<operationMutex, now, nextTick, ctxDone, exited, storeVars, engineVars, enumVars, lockVars>>
    /\ passUnchanged /\ uiUnchanged

\* repositionSavedWindows: wm.operationMutex.Lock().
pass_Lock(g) ==
    /\ ~exited
    /\ gpc[g] = "lock"
    /\ Lockable(operationMutex)
    /\ operationMutex' = g
    /\ gpc' = [gpc EXCEPT ![g] = "read"]
    /\ UNCHANGED <<passLog, ctxDone, exited, storeVars, engineVars, enumVars, lockVars>>
    /\ passUnchanged /\ uiUnchanged /\ clockUnchanged

\* Where a goroutine is once its pass has returned.
AfterPass(g) == IF g = "monitor" THEN "select" ELSE "returned"

\* repositionSavedWindows: GetAllPositions and EnumerateWindows; an
\* enumeration error ends the pass, and so does a panic, which the
\* deferred panicHandler recovers.
pass_Read(g) ==
    /\ ~exited
    /\ gpc[g] = "read"
    /\ \E fail \in BOOLEAN, enumOk \in BOOLEAN, panic \in BOOLEAN :
          LET r == loadAllResult(fail)
              positions_ == AfterLoad(StoreOp("GetAll", "", NoPos), r).ret.map
              e == EnumerateWindows(Desktop, enumOk)
          IN IF panic
             THEN /\ gpc' = [gpc EXCEPT ![g] = AfterPass(g)]
                  /\ operationMutex' = AfterPanic(operationMutex)
                  /\ lastFailure' = [Handle |-> 0, result |-> "panic"]
                  /\ UNCHANGED <<passPositions, passWindows, passLoadErr, passExpected>>
             ELSE IF e.err
             THEN /\ gpc' = [gpc EXCEPT ![g] = AfterPass(g)]
                  /\ operationMutex' = NoTask
                  /\ UNCHANGED <<passPositions, passWindows, passLoadErr, passExpected,
                                 lastFailure>>
             ELSE /\ gpc' = [gpc EXCEPT ![g] = "loop"]
                  /\ passPositions' = positions_
                  /\ passWindows' = e.windows
                  /\ passLoadErr' = r[1]
                  /\ passExpected' = expected
                  /\ UNCHANGED <<operationMutex, lastFailure>>
    /\ UNCHANGED <<passIdx, attempts>>
    /\ UNCHANGED <<passLog, ctxDone, exited, storeVars, engineVars, enumVars, lockVars>>
    /\ uiUnchanged /\ clockUnchanged

\* The results of MoveWindowAccurate as the pass sees them; "panic" is a
\* panic inside the loop body.
MoveResults == {"nil", "error", "panic"}

\* One iteration of the loop over the enumerated windows.
pass_Window(g) ==
    /\ ~exited
    /\ gpc[g] = "loop"
    /\ passIdx < Len(passWindows)
    /\ LET window == passWindows[passIdx + 1]
           identifier == passIdentifier(window)
       IN IF identifier \in DOMAIN passPositions /\ Eligible(window.Handle, lastFailure)
          THEN \E result \in MoveResults :
                  /\ attempts' = Append(attempts, [Handle |-> window.Handle,
                                                   pos |-> SavedPosition(passPositions, identifier),
                                                   result |-> result])
                  /\ passIdx' = AfterWindow(passIdx + 1, Len(passWindows), result)
          ELSE /\ passIdx' = passIdx + 1
               /\ UNCHANGED attempts
    /\ UNCHANGED <<gpc, operationMutex, passPositions, passWindows, passLoadErr, passExpected,
                   lastFailure, passLog, ctxDone, exited, storeVars, engineVars, enumVars, lockVars>>
    /\ uiUnchanged /\ clockUnchanged

\* The loop is over: the deferred Unlock runs and the pass returns.
pass_Return(g) ==
    /\ ~exited
    /\ gpc[g] = "loop"
    /\ passIdx = Len(passWindows)
    /\ operationMutex' = NoTask
    /\ gpc' = [gpc EXCEPT ![g] = AfterPass(g)]
    /\ passPositions' = EmptyMap
    /\ passWindows' = <<>>
    /\ passIdx' = 0
    /\ attempts' = <<>>
    /\ passLoadErr' = FALSE
    /\ passExpected' = EmptyMap
    /\ lastFailure' = LastFailureOf(attempts, lastFailure)
    /\ UNCHANGED <<passLog, ctxDone, exited, storeVars, engineVars, enumVars, lockVars>>
    /\ uiUnchanged /\ clockUnchanged

\* A call of refreshWindowList from the UI.
CallRefresh ==
    /\ gpc' = [gpc EXCEPT !["ui"] = "rlock"]
    /\ cacheBefore' = wmWindows
    /\ refreshErr' = FALSE
    /\ nui' = nui - 1

\* The refresh button.
ui_Refresh ==
    /\ ~exited
    /\ gpc["ui"] = "idle"
    /\ nui > 0
    /\ CallRefresh
    /\ UNCHANGED <<operationMutex, wmWindows, savedFields, uiRet, expected, passLog, ctxDone,
                   exited, storeVars, engineVars, enumVars, lockVars>>
    /\ passUnchanged /\ clockUnchanged

storeFileOnly ==
    UNCHANGED <<tmpFile, mu, spc, sop, positions, sret, ioerr, seen, hist, lastRename,
                committed, crashed, ncalls>>

\* The save button of a row of the list: saveWindowPosition, which ends,
\* when the position was stored, with setupMainWindowContent and so with
\* a refresh.
ui_Save ==
    /\ ~exited
    /\ gpc["ui"] = "idle"
    /\ nui > 0
    /\ \E i \in 1..Len(wmWindows), rectOk \in BOOLEAN, fail \in BOOLEAN, written \in BOOLEAN :
          \E live \in LiveWindows(wmWindows[i]) :
             LET window == wmWindows[i]
                 p == getWindowPosition(live.valid, rectOk, live.rect)
                 c == saveWindowPosition(window, p, loadAllResult(fail), written)
             IN /\ uiRet' = c.ret
                /\ IF c.write
                   THEN /\ storageFile' = MarshalIndent(c.map)
                        /\ savedFields' = savedFields \cup {SavedFrom(window)}
                        /\ expected' = [k \in DOMAIN expected \cup {saveIdentifier(window)} |->
                                            IF k = saveIdentifier(window) THEN p.pos
                                            ELSE expected[k]]
                        /\ CallRefresh
                   ELSE /\ nui' = nui - 1
                        /\ UNCHANGED <<storageFile, savedFields, expected, gpc, cacheBefore,
                                       refreshErr>>
    /\ UNCHANGED <<operationMutex, wmWindows, passLog, ctxDone, exited, engineVars, enumVars, lockVars>>
    /\ storeFileOnly /\ passUnchanged /\ clockUnchanged

\* The keys of the list of saved positions: createSavedPositionsList reads
\* them with GetAllPositions whenever the content is set up.
positionKeys == DOMAIN AfterLoad(StoreOp("GetAll", "", NoPos), loadAllResult(FALSE)).ret.map

\* The delete button of a saved position: DeletePosition, whose error is
\* dropped, then setupMainWindowContent and so a refresh.
ui_Delete ==
    /\ ~exited
    /\ gpc["ui"] = "idle"
    /\ nui > 0
    /\ \E key \in positionKeys, fail \in BOOLEAN, written \in BOOLEAN :
          LET c == deletePosition(key, loadAllResult(fail), written)
          IN /\ uiRet' = c.ret
             /\ IF c.write
                THEN /\ storageFile' = MarshalIndent(c.map)
                     /\ expected' = [k \in DOMAIN expected \ {key} |-> expected[k]]
                ELSE UNCHANGED <<storageFile, expected>>
    /\ CallRefresh
    /\ UNCHANGED <<operationMutex, wmWindows, savedFields, passLog, ctxDone, exited,
                   engineVars, enumVars, lockVars>>
    /\ storeFileOnly /\ passUnchanged /\ clockUnchanged

\* refreshWindowList: wm.operationMutex.Lock(), then the cache is cleared.
refresh_Lock ==
    /\ ~exited
    /\ gpc["ui"] = "rlock"
    /\ Lockable(operationMutex)
    /\ operationMutex' = "ui"
    /\ wmWindows' = ClearedCache(wmWindows)
    /\ gpc' = [gpc EXCEPT !["ui"] = "renum"]
    /\ UNCHANGED <<cacheBefore, refreshErr, savedFields, nui, uiRet, expected, passLog,
                   ctxDone, exited, storeVars, engineVars, enumVars, lockVars>>
    /\ passUnchanged /\ clockUnchanged

\* refreshWindowList: EnumerateWindows, the filter, the new cache, and the
\* deferred Unlock; an enumeration error is logged and ends the refresh.
refresh_Enumerate ==
    /\ ~exited
    /\ gpc["ui"] = "renum"
    /\ \E enumOk \in BOOLEAN :
          LET e == EnumerateWindows(Desktop, enumOk)
          IN IF e.err
             THEN /\ refreshErr' = TRUE
                  /\ UNCHANGED wmWindows
             ELSE /\ wmWindows' = filteredWindows(e.windows)
                  /\ UNCHANGED refreshErr
    /\ operationMutex' = NoTask
    /\ gpc' = [gpc EXCEPT !["ui"] = "idle"]
    /\ UNCHANGED <<cacheBefore, savedFields, nui, uiRet, expected, passLog, ctxDone, exited,
                   storeVars, engineVars, enumVars, lockVars>>
    /\ passUnchanged /\ clockUnchanged

ManagerNext ==
    \/ AdvanceTime
    \/ TickerFires
    \/ Cancel
    \/ Exit
    \/ startup_Wake
    \/ monitor_Select
    \/ \E g \in PassGoroutines : pass_Lock(g)
    \/ \E g \in PassGoroutines : pass_Read(g)
    \/ \E g \in PassGoroutines : pass_Window(g)
    \/ \E g \in PassGoroutines : pass_Return(g)
    \/ ui_Refresh
    \/ ui_Save
    \/ ui_Delete
    \/ refresh_Lock
    \/ refresh_Enumerate

(***************************************************************************)
(* EnumerateWindows step by step: EnumWindows hands the windows to         *)
(* enumWindowsCallbackFunc one after another, getWindowInfo asks the OS for *)
(* one field after another, and the window's owner may destroy the window  *)
(* between any two OS calls.                                               *)
(***************************************************************************)
\* The failing sub-queries of one enumeration.
MaxFailed == 2

\* The windows EnumWindows visits: a window with non-zero styles, an
\* invisible one, and two windows of one application in two processes.
EnumDesktop == <<Desktop[3], Desktop[6], Desktop[1], Desktop[7]>>

\* The process that owns a window and the client area of the window.
OwnerPid(w) == 4000 + w.Handle
ClientRectOf(w) ==
    RECT(0, 0, w.WindowRect.Right - w.WindowRect.Left, w.WindowRect.Bottom - w.WindowRect.Top)

DecDigits == <<"0", "1", "2", "3", "4", "5", "6", "7", "8", "9">>

\* %d of fmt.Sprintf for a non-negative number.
RECURSIVE FormatDec(_)
FormatDec(n) ==
    IF n < 10 THEN DecDigits[n + 1] ELSE FormatDec(n \div 10) \o DecDigits[(n % 10) + 1]

\* A placeholder that is the empty string.
Placeholder_empty(pid) == ""

\* fmt.Sprintf("PID:%d", processID)
Placeholder(pid) == "PID:" \o FormatDec(pid)

\* The variables of getWindowInfo before any query: title, className,
\* processID, exePath, style, exstyle, clientRect and windowRect at their
\* zero values.
NoInfo(h) ==
    [Handle |-> h, Title |-> "", ClassName |-> "", ProcessID |-> 0, Executable |-> "",
     Style |-> 0, ExStyle |-> 0, ClientRect |-> RECT(0, 0, 0, 0),
     WindowRect |-> RECT(0, 0, 0, 0)]

\* What the OS holds for each field of a window.
TrueInfo(w) ==
    [Handle |-> w.Handle, Title |-> w.Title, ClassName |-> w.ClassName,
     ProcessID |-> OwnerPid(w), Executable |-> w.Executable, Style |-> w.Style,
     ExStyle |-> w.ExStyle, ClientRect |-> ClientRectOf(w), WindowRect |-> w.WindowRect]

\* The fields in the order getWindowInfo fills them, and the position of
\* getWindowInfo at which each is filled.
InfoFields ==
    <<"Title", "ClassName", "ProcessID", "Executable", "Style", "ExStyle", "ClientRect",
      "WindowRect">>
InfoSteps ==
    <<"valid1", "title", "class", "pid", "exe", "valid2", "style", "exstyle", "valid3",
      "clientRect", "valid4", "windowRect">>
StepOfField ==
    [Title |-> "title", ClassName |-> "class", ProcessID |-> "pid", Executable |-> "exe",
     Style |-> "style", ExStyle |-> "exstyle", ClientRect |-> "clientRect",
     WindowRect |-> "windowRect"]
StepIndex(pc) == CHOOSE i \in 1..Len(InfoSteps) : InfoSteps[i] = pc

\* A validity check that throws away what was collected when it finds the
\* handle invalid.
OnInvalidHandle_reset(info) == NoInfo(info.Handle)

\* The else branch of `if isValidWindow(hwnd)`: the calls are skipped, the
\* variables keep what they hold.
OnInvalidHandle(info) == info

\* Where getWindowInfo goes after isValidWindow at the position pc.
AfterValidCheck(pc, valid) ==
    IF pc = "valid1" THEN (IF valid THEN "title" ELSE "exe")
    ELSE IF pc = "valid2" THEN (IF valid THEN "style" ELSE "valid3")
    ELSE IF pc = "valid3" THEN (IF valid THEN "clientRect" ELSE "valid4")
    ELSE (IF valid THEN "windowRect" ELSE "filter")

EnumIdle ==
    /\ epc = "idle"
    /\ eidx = 0
    /\ elive = FALSE
    /\ einfo = NoInfo(0)
    /\ elist = <<>>
    /\ eok = "none"
    /\ eret = [err |-> FALSE, windows |-> <<>>]
    /\ efailed = {}
    /\ einvalidAt = "none"
    /\ einfoAt = NoInfo(0)
    /\ nfail = 0

EnumInit ==
    /\ epc = "idle"
    /\ eidx = 0
    /\ elive = FALSE
    /\ einfo = NoInfo(0)
    /\ elist = <<>>
    /\ eok = "none"
    /\ eret = [err |-> FALSE, windows |-> <<>>]
    /\ efailed = {}
    /\ einvalidAt = "none"
    /\ einfoAt = NoInfo(0)
    /\ nfail = MaxFailed

enumRest == UNCHANGED <<storeVars, engineVars, managerVars, lockVars>>

\* EnumerateWindows up to procEnumWindows.Call: the buffer is cleared.
EnumerateWindows_Call ==
    /\ epc = "idle"
    /\ epc' = "next"
    /\ elist' = <<>>
    /\ UNCHANGED <<eidx, elive, einfo, eok, eret, efailed, einvalidAt, einfoAt, nfail>>
    /\ enumRest

\* EnumWindows calls the callback on the next window: a zero, invalid or
\* invisible handle is passed over, else getWindowInfo starts.
enum_Visit ==
    /\ epc = "next"
    /\ eidx < Len(EnumDesktop)
    /\ eidx' = eidx + 1
    /\ LET w == EnumDesktop[eidx + 1]
       IN IF w.Handle = 0 \/ ~w.valid \/ ~w.visible
          THEN UNCHANGED <<epc, elive, einfo>>
          ELSE /\ epc' = "valid1"
               /\ elive' = TRUE
               /\ einfo' = NoInfo(w.Handle)
    /\ UNCHANGED <<elist, eok, eret, efailed, einvalidAt, einfoAt, nfail>>
    /\ enumRest

\* The owner destroys the window whose snapshot is being taken.
Invalidate ==
    /\ epc \in {InfoSteps[i] : i \in 1..Len(InfoSteps)}
    /\ elive
    /\ elive' = FALSE
    /\ einvalidAt' = epc
    /\ einfoAt' = einfo
    /\ UNCHANGED <<epc, eidx, einfo, elist, eok, eret, efailed, nfail>>
    /\ enumRest

\* `if isValidWindow(hwnd)` before the title, the styles, the client
\* rectangle and the window rectangle.
info_isValidWindow ==
    /\ epc \in {"valid1", "valid2", "valid3", "valid4"}
    /\ epc' = AfterValidCheck(epc, elive)
    /\ einfo' = IF elive THEN einfo ELSE OnInvalidHandle(einfo)
    /\ UNCHANGED <<eidx, elive, elist, eok, eret, efailed, einvalidAt, einfoAt, nfail>>
    /\ enumRest

\* One query on the window handle: it fails on a destroyed window and may
\* fail on a live one; a failure leaves the variable at its zero value.
WindowQuery(next, field, call) ==
    /\ epc' = next
    /\ \E ok \in BOOLEAN :
          /\ ok => elive
          /\ (~ok /\ elive) => nfail > 0
          /\ nfail' = IF ~ok /\ elive THEN nfail - 1 ELSE nfail
          /\ einfo' = IF ok THEN [einfo EXCEPT ![field] = TrueInfo(EnumDesktop[eidx])[field]]
                      ELSE einfo
          /\ efailed' = IF ok THEN efailed ELSE efailed \cup {call}
    /\ UNCHANGED <<eidx, elive, elist, eok, eret, einvalidAt, einfoAt>>
    /\ enumRest

info_GetWindowText ==
    /\ epc = "title"
    /\ WindowQuery("class", "Title", "GetWindowText")

info_GetClassName ==
    /\ epc = "class"
    /\ WindowQuery("pid", "ClassName", "GetClassName")

info_GetWindowThreadProcessId ==
    /\ epc = "pid"
    /\ WindowQuery("exe", "ProcessID", "GetWindowThreadProcessId")

info_getWindowLong_Style ==
    /\ epc = "style"
    /\ WindowQuery("exstyle", "Style", "getWindowLong(GWL_STYLE)")

info_getWindowLong_ExStyle ==
    /\ epc = "exstyle"
    /\ WindowQuery("valid3", "ExStyle", "getWindowLong(GWL_EXSTYLE)")

info_getClientRect ==
    /\ epc = "clientRect"
    /\ WindowQuery("valid4", "ClientRect", "getClientRect")

info_GetWindowRect ==
    /\ epc = "windowRect"
    /\ WindowQuery("filter", "WindowRect", "GetWindowRect")

\* `if processID != 0`: getProcessExecutablePath opens the process and asks
\* for the path of its main module; either can fail, and the window need
\* not exist any more.
info_getProcessExecutablePath ==
    /\ epc = "exe"
    /\ epc' = "valid2"
    /\ IF einfo.ProcessID = 0
       THEN UNCHANGED <<einfo, efailed, nfail>>
       ELSE \E o \in {"ok", "OpenProcess", "GetModuleFileNameExW"} :
               /\ o # "ok" => nfail > 0
               /\ nfail' = IF o # "ok" THEN nfail - 1 ELSE nfail
               /\ einfo' = [einfo EXCEPT !.Executable =
                               IF o = "ok" THEN EnumDesktop[eidx].Executable
                               ELSE Placeholder(einfo.ProcessID)]
               /\ efailed' = IF o = "ok" THEN efailed ELSE efailed \cup {o}
    /\ UNCHANGED <<eidx, elive, elist, eok, eret, einvalidAt, einfoAt>>
    /\ enumRest

\* The callback after getWindowInfo: a snapshot more than 8 px wide and
\* high is appended; the callback returns 1.
callback_Filter ==
    /\ epc = "filter"
    /\ epc' = "next"
    /\ elist' = IF /\ einfo.WindowRect.Right - einfo.WindowRect.Left > 8
                   /\ einfo.WindowRect.Bottom - einfo.WindowRect.Top > 8
                THEN Append(elist, einfo) ELSE elist
    /\ elive' = FALSE
    /\ einfo' = NoInfo(0)
    /\ efailed' = {}
    /\ einvalidAt' = "none"
    /\ einfoAt' = NoInfo(0)
    /\ UNCHANGED <<eidx, eok, eret, nfail>>
    /\ enumRest

\* procEnumWindows.Call returns: 0 at any point between two windows, or
\* non-zero after the last one; EnumerateWindows returns the error or a
\* copy of the buffer.
enum_Return ==
    /\ epc = "next"
    /\ \E ok \in BOOLEAN :
          /\ ok => eidx = Len(EnumDesktop)
          /\ eok' = ok
          /\ eret' = IF ok THEN [err |-> FALSE, windows |-> elist]
                     ELSE [err |-> TRUE, windows |-> <<>>]
    /\ epc' = "done"
    /\ UNCHANGED <<eidx, elive, einfo, elist, efailed, einvalidAt, einfoAt, nfail>>
    /\ enumRest

EnumNext ==
    \/ EnumerateWindows_Call
    \/ enum_Visit
    \/ Invalidate
    \/ info_isValidWindow
    \/ info_GetWindowText
    \/ info_GetClassName
    \/ info_GetWindowThreadProcessId
    \/ info_getProcessExecutablePath
    \/ info_getWindowLong_Style
    \/ info_getWindowLong_ExStyle
    \/ info_getClientRect
    \/ info_GetWindowRect
    \/ callback_Filter
    \/ enum_Return

(***************************************************************************)
(* The locks.  A call is the sequence of Lock and Unlock operations it     *)
(* makes, with the accesses to the enumeration buffer between them; the    *)
(* tasks make their calls one operation at a time.                         *)
(***************************************************************************)
\* The calls each task makes.
MaxRuns == 1

LockTasks == {"startup", "monitor", "ui", "heartbeat"}

Ins(op, lock, i) == [op |-> op, lock |-> lock, i |-> i]

\* mutex.Lock(); defer mutex.Unlock(), or Lock and Unlock around a block.
Locked(lock, body) == <<Ins("Lock", lock, 0)>> \o body \o <<Ins("Unlock", lock, 0)>>

\* setWindows and getWindows: the cache under wm.windowsMutex.
setWindows_locks == Locked("windowsMutex", <<>>)
getWindows_locks == <<Ins("RLock", "windowsMutex", 0), Ins("RUnlock", "windowsMutex", 0)>>

\* loadAll and saveAll: the store file under ps.mu.
loadAll_locks == Locked("mu", <<>>)
saveAll_locks == Locked("mu", <<>>)

\* The windows of one enumeration that pass the filter of the callback.
QualifyingWindows == EnumerateWindows(EnumDesktop, TRUE).windows

\* enumWindowsCallbackFunc: the append under enumMutex, window after window.
RECURSIVE callback_locks(_)
callback_locks(n) ==
    IF n = 0 THEN <<>>
    ELSE callback_locks(n - 1) \o Locked("enumMutex", <<Ins("append", "", n)>>)

\* EnumerateWindows: the buffer is reset, EnumWindows runs the callbacks,
\* and the buffer is copied; when EnumWindows fails nothing is copied.
EnumerateWindows_locks(enumOk) ==
    Locked("enumMutex", <<Ins("reset", "", 0)>>)
    \o (IF enumOk
        THEN callback_locks(Len(QualifyingWindows))
             \o Locked("enumMutex", <<Ins("copy", "", 0)>>)
        ELSE <<>>)

\* refreshWindowList: under wm.operationMutex the cache is emptied and
\* shown, the windows are enumerated, the cache is filled and shown.
refreshWindowList_locks(enumOk) ==
    Locked("operationMutex",
           setWindows_locks \o getWindows_locks \o EnumerateWindows_locks(enumOk)
           \o (IF enumOk THEN setWindows_locks \o getWindows_locks ELSE <<>>))

\* A pass that asks for a refresh of the list before it returns.
repositionSavedWindows_refreshing(enumOk) ==
    Locked("operationMutex",
           loadAll_locks \o EnumerateWindows_locks(enumOk) \o refreshWindowList_locks(enumOk))

\* repositionSavedWindows: under wm.operationMutex the store is read and
\* the windows are enumerated; MoveWindowAccurate takes no lock.
repositionSavedWindows_locks(enumOk) ==
    Locked("operationMutex", loadAll_locks \o EnumerateWindows_locks(enumOk))

\* setupMainWindowContent: createSavedPositionsList reads the store, and
\* the function ends with a refresh.
setupMainWindowContent_locks(enumOk) == loadAll_locks \o refreshWindowList_locks(enumOk)

\* How a SavePosition or a DeletePosition ends: the load fails, the write
\* fails, or the call returns nil.
StoreOutcomes == {"loadErr", "saveErr", "nil"}

\* saveWindowPosition: SavePosition, and setupMainWindowContent when the
\* position was stored.
saveWindowPosition_locks(outcome, enumOk) ==
    loadAll_locks
    \o (IF outcome = "loadErr" THEN <<>> ELSE saveAll_locks)
    \o (IF outcome = "nil" THEN setupMainWindowContent_locks(enumOk) ELSE <<>>)

\* The delete button: DeletePosition, whose error is dropped, and
\* setupMainWindowContent.
deletePosition_locks(outcome, enumOk) ==
    loadAll_locks
    \o (IF outcome = "loadErr" THEN <<>> ELSE saveAll_locks)
    \o setupMainWindowContent_locks(enumOk)

\* What a task may call: the two goroutines of main call the pass, the UI
\* runs the callback of a button, the heartbeat reads the cache.
Calls(t) ==
    IF t \in {"startup", "monitor"}
    THEN {repositionSavedWindows_locks(enumOk) : enumOk \in BOOLEAN}
    ELSE IF t = "heartbeat" THEN {getWindows_locks}
    ELSE {refreshWindowList_locks(enumOk) : enumOk \in BOOLEAN}
         \cup {saveWindowPosition_locks(outcome, enumOk) :
                   outcome \in StoreOutcomes, enumOk \in BOOLEAN}
         \cup {deletePosition_locks(outcome, enumOk) :
                   outcome \in StoreOutcomes, enumOk \in BOOLEAN}

FreeRW == [writer |-> NoTask, readers |-> {}]
NoList == [set |-> FALSE, windows |-> <<>>]

LockIdle ==
    /\ todo = [t \in LockTasks |-> <<>>]
    /\ truns = [t \in LockTasks |-> 0]
    /\ windowsMutex = FreeRW
    /\ enumMutex = NoTask
    /\ tret = [t \in LockTasks |-> NoList]

\* The task holds the lock.
Holds(t, lock) ==
    IF lock = "operationMutex" THEN operationMutex = t
    ELSE IF lock = "windowsMutex" THEN windowsMutex.writer = t \/ t \in windowsMutex.readers
    ELSE IF lock = "enumMutex" THEN enumMutex = t
    ELSE mu = t

\* Lock returns only when the mutex is free, a write Lock of the RWMutex
\* only when no reader holds it either.
CanLock(lock) ==
    IF lock = "operationMutex" THEN Lockable(operationMutex)
    ELSE IF lock = "windowsMutex"
    THEN windowsMutex.writer = NoTask /\ windowsMutex.readers = {}
    ELSE IF lock = "enumMutex" THEN enumMutex = NoTask
    ELSE mu = NoTask

\* The operation the task is at can be made now.
CanStep(t) ==
    /\ todo[t] # <<>>
    /\ LET ins == Head(todo[t])
       IN IF ins.op = "Lock" THEN CanLock(ins.lock)
          ELSE IF ins.op = "RLock" THEN windowsMutex.writer = NoTask
          ELSE TRUE

\* What the lock actions leave alone: all but the four locks, the buffer
\* and the tasks.
lockRest ==
    UNCHANGED <<storageFile, tmpFile, spc, sop, positions, sret, ioerr, seen, hist, lastRename,
                committed, crashed, ncalls, engineVars, gpc, wmWindows, passPositions,
                passWindows, passIdx, attempts, passLog, now, nextTick, tickPending, ctxDone,
                exited, cacheBefore, refreshErr, savedFields, nui, uiRet, expected,
                passLoadErr, passExpected, lastFailure, epc, eidx, elive, einfo, eok, eret,
                efailed, einvalidAt, einfoAt, nfail>>

\* The task is called.
task_Call(t) ==
    /\ todo[t] = <<>>
    /\ truns[t] < MaxRuns
    /\ \E call \in Calls(t) : todo' = [todo EXCEPT ![t] = call]
    /\ truns' = [truns EXCEPT ![t] = @ + 1]
    /\ tret' = [tret EXCEPT ![t] = NoList]
    /\ UNCHANGED <<operationMutex, mu, windowsMutex, enumMutex, elist>>
    /\ lockRest

\* sync.Mutex.Lock and sync.RWMutex.Lock.
task_Lock(t) ==
    /\ CanStep(t)
    /\ Head(todo[t]).op = "Lock"
    /\ LET lock == Head(todo[t]).lock
       IN /\ operationMutex' = IF lock = "operationMutex" THEN t ELSE operationMutex
          /\ windowsMutex' = IF lock = "windowsMutex"
                             THEN [windowsMutex EXCEPT !.writer = t] ELSE windowsMutex
          /\ enumMutex' = IF lock = "enumMutex" THEN t ELSE enumMutex
          /\ mu' = IF lock = "mu" THEN t ELSE mu
    /\ todo' = [todo EXCEPT ![t] = Tail(@)]
    /\ UNCHANGED <<truns, tret, elist>>
    /\ lockRest

\* Unlock: the mutex is free again.
task_Unlock(t) ==
    /\ CanStep(t)
    /\ Head(todo[t]).op = "Unlock"
    /\ LET lock == Head(todo[t]).lock
       IN /\ operationMutex' = IF lock = "operationMutex" THEN NoTask ELSE operationMutex
          /\ windowsMutex' = IF lock = "windowsMutex"
                             THEN [windowsMutex EXCEPT !.writer = NoTask] ELSE windowsMutex
          /\ enumMutex' = IF lock = "enumMutex" THEN NoTask ELSE enumMutex
          /\ mu' = IF lock = "mu" THEN NoTask ELSE mu
    /\ todo' = [todo EXCEPT ![t] = Tail(@)]
    /\ UNCHANGED <<truns, tret, elist>>
    /\ lockRest

\* sync.RWMutex.RLock and RUnlock.
task_RLock(t) ==
    /\ CanStep(t)
    /\ Head(todo[t]).op = "RLock"
    /\ windowsMutex' = [windowsMutex EXCEPT !.readers = @ \cup {t}]
    /\ todo' = [todo EXCEPT ![t] = Tail(@)]
    /\ UNCHANGED <<operationMutex, mu, enumMutex, truns, tret, elist>>
    /\ lockRest

task_RUnlock(t) ==
    /\ CanStep(t)
    /\ Head(todo[t]).op = "RUnlock"
    /\ windowsMutex' = [windowsMutex EXCEPT !.readers = @ \ {t}]
    /\ todo' = [todo EXCEPT ![t] = Tail(@)]
    /\ UNCHANGED <<operationMutex, mu, enumMutex, truns, tret, elist>>
    /\ lockRest

\* EnumerateWindows: enumeratedWindows = enumeratedWindows[:0].
buffer_Reset(t) ==
    /\ CanStep(t)
    /\ Head(todo[t]).op = "reset"
    /\ elist' = <<>>
    /\ todo' = [todo EXCEPT ![t] = Tail(@)]
    /\ UNCHANGED <<operationMutex, mu, windowsMutex, enumMutex, truns, tret>>
    /\ lockRest

\* enumWindowsCallbackFunc: enumeratedWindows = append(enumeratedWindows, info).
buffer_Append(t) ==
    /\ CanStep(t)
    /\ Head(todo[t]).op = "append"
    /\ elist' = Append(elist, QualifyingWindows[Head(todo[t]).i])
    /\ todo' = [todo EXCEPT ![t] = Tail(@)]
    /\ UNCHANGED <<operationMutex, mu, windowsMutex, enumMutex, truns, tret>>
    /\ lockRest

\* EnumerateWindows: the copy of the buffer is what the call returns.
buffer_Copy(t) ==
    /\ CanStep(t)
    /\ Head(todo[t]).op = "copy"
    /\ tret' = [tret EXCEPT ![t] = [set |-> TRUE, windows |-> elist]]
    /\ todo' = [todo EXCEPT ![t] = Tail(@)]
    /\ UNCHANGED <<operationMutex, mu, windowsMutex, enumMutex, truns, elist>>
    /\ lockRest

LockNext ==
    \E t \in LockTasks :
        \/ task_Call(t)
        \/ task_Lock(t)
        \/ task_Unlock(t)
        \/ task_RLock(t)
        \/ task_RUnlock(t)
        \/ buffer_Reset(t)
        \/ buffer_Append(t)
        \/ buffer_Copy(t)

(***************************************************************************)
(* Specifications                                                          *)
(***************************************************************************)
\* The store on its own: no window is handled.
StoreOnlyInit ==
    /\ EnumIdle
    /\ LockIdle
    /\ StoreInit
    /\ win = NoWindow
    /\ EngineIdle
    /\ nmoves = 0
    /\ nfocus = 0
    /\ ManagerIdle

\* The engines on their own: the store is not called.
EngineOnlyInit ==
    /\ EnumIdle
    /\ LockIdle
    /\ StoreInit
    /\ EngineInit
    /\ ManagerIdle

\* The manager with its goroutines: the store is read and written in
\* whole calls, MoveWindowAccurate is a call with a result.
ManagerOnlyInit ==
    /\ EnumIdle
    /\ LockIdle
    /\ tmpFile = AbsentFile
    /\ mu = NoTask
    /\ spc = [t \in Tasks |-> "idle"]
    /\ sop = [t \in Tasks |-> NoOp]
    /\ positions = [t \in Tasks |-> EmptyMap]
    /\ sret = [t \in Tasks |-> NoRet]
    /\ ioerr = [t \in Tasks |-> FALSE]
    /\ seen = [t \in Tasks |-> NoCommit]
    /\ hist = <<>>
    /\ lastRename = NoOp
    /\ committed = EmptyMap
    /\ crashed = FALSE
    /\ ncalls = 0
    /\ win = NoWindow
    /\ EngineIdle
    /\ nmoves = 0
    /\ nfocus = 0
    /\ ManagerInit

\* The position store with concurrent callers.
StoreSpec == StoreOnlyInit /\ [][StoreNext]_vars

\* The position store with one caller.
StoreSeqSpec == StoreOnlyInit /\ [][StoreSeqNext]_vars

\* One window, the calls made on its handle one after another, and the
\* window's owner running in between.
EngineCalls == EngineNext \/ saveWindowPosition_OnWindow
EngineSpec == EngineOnlyInit /\ [][EngineCalls]_vars

\* EnumerateWindows on its own.
EnumOnlyInit ==
    /\ StoreInit
    /\ win = NoWindow
    /\ EngineIdle
    /\ nmoves = 0
    /\ nfocus = 0
    /\ ManagerIdle
    /\ EnumInit
    /\ LockIdle

\* One call of EnumerateWindows, the owners of the windows running in
\* between.
EnumSpec == EnumOnlyInit /\ [][EnumNext]_vars

\* The window manager: the startup pass, the periodic loop and the UI.
ManagerSpec == ManagerOnlyInit /\ [][ManagerNext]_vars

\* A snapshot of the cached list whose title and class name are chosen by
\* the window's owner and may contain the separator of the identifier.
KeySnapshot(h, title, class) ==
    getWindowInfo(OsWindow(h, TRUE, TRUE, title, class, "D", 0, 0, RECT(0, 0, 800, 600)))

\* The cached lists of two rows.
KeyRows ==
    {<<KeySnapshot(1, t1, c1), KeySnapshot(2, t2, c2)>> :
        t1 \in {"A", "A|B", "T"}, c1 \in {"C", "B|C"},
        t2 \in {"A", "A|B", "T"}, c2 \in {"C", "B|C"}}

\* The presentation layer with a list of two rows and an absent store file;
\* no pass is running.
KeyOnlyInit ==
    /\ EnumIdle
    /\ LockIdle
    /\ StoreInit
    /\ win = NoWindow
    /\ EngineIdle
    /\ nmoves = 0
    /\ nfocus = 0
    /\ gpc = [g \in Goroutines |-> IF g = "ui" THEN "idle" ELSE "off"]
    /\ operationMutex = NoTask
    /\ wmWindows \in KeyRows
    /\ passPositions = EmptyMap
    /\ passWindows = <<>>
    /\ passIdx = 0
    /\ attempts = <<>>
    /\ passLog = <<>>
    /\ now = 0
    /\ nextTick = TickPeriod
    /\ tickPending = FALSE
    /\ ctxDone = FALSE
    /\ exited = FALSE
    /\ cacheBefore = <<>>
    /\ refreshErr = FALSE
    /\ savedFields = {}
    /\ nui = MaxUiOps
    /\ uiRet = "none"
    /\ expected = EmptyMap
    /\ passLoadErr = FALSE
    /\ passExpected = EmptyMap
    /\ lastFailure = NoFailure

\* The save button pressed on a row of such a list, and the refresh that
\* follows a save.
KeyNext == ui_Save \/ refresh_Lock \/ refresh_Enumerate
KeySpec == KeyOnlyInit /\ [][KeyNext]_vars

(***************************************************************************)
(* A pass whose matched window is moved by the engine call by call, while  *)
(* the UI asks for a refresh and the window's owner may stop answering.    *)
(***************************************************************************)
\* The store of a previous run that saved the third window of the desktop.
SavedThird ==
    SetEntry(EmptyMap, saveIdentifier(getWindowInfo(Desktop[3])),
             WindowPosition(100, 100, 800, 600))

\* The monitoring goroutine has received a tick and called
\* repositionSavedWindows; the UI is idle.
PassMoveOnlyInit ==
    /\ EnumIdle
    /\ LockIdle
    /\ storageFile = MarshalIndent(SavedThird)
    /\ tmpFile = AbsentFile
    /\ mu = NoTask
    /\ spc = [t \in Tasks |-> "idle"]
    /\ sop = [t \in Tasks |-> NoOp]
    /\ positions = [t \in Tasks |-> EmptyMap]
    /\ sret = [t \in Tasks |-> NoRet]
    /\ ioerr = [t \in Tasks |-> FALSE]
    /\ seen = [t \in Tasks |-> NoCommit]
    /\ hist = <<>>
    /\ lastRename = NoOp
    /\ committed = EmptyMap
    /\ crashed = FALSE
    /\ ncalls = 0
    /\ win \in WindowStates
    /\ EngineIdle
    /\ nmoves = 1
    /\ nfocus = 0
    /\ gpc = [g \in Goroutines |->
                 IF g = "startup" THEN "returned" ELSE IF g = "monitor" THEN "lock" ELSE "idle"]
    /\ operationMutex = NoTask
    /\ wmWindows = filteredWindows(EnumerateWindows(Desktop, TRUE).windows)
    /\ passPositions = EmptyMap
    /\ passWindows = <<>>
    /\ passIdx = 0
    /\ attempts = <<>>
    /\ passLog = <<[who |-> "monitor", at |-> TickPeriod, afterCancel |-> FALSE]>>
    /\ now = TickPeriod
    /\ nextTick = TickPeriod + TickPeriod
    /\ tickPending = FALSE
    /\ ctxDone = FALSE
    /\ exited = FALSE
    /\ cacheBefore = <<>>
    /\ refreshErr = FALSE
    /\ savedFields = {SavedFrom(getWindowInfo(Desktop[3]))}
    /\ nui = MaxUiOps
    /\ uiRet = "none"
    /\ expected = SavedThird
    /\ passLoadErr = FALSE
    /\ passExpected = EmptyMap
    /\ lastFailure = NoFailure

\* The window the loop of the pass is at has a saved position.
PassAtSavedWindow ==
    /\ passIdx < Len(passWindows)
    /\ passIdentifier(passWindows[passIdx + 1]) \in DOMAIN passPositions

\* repositionSavedWindows: a window without a saved position is passed over.
pass_Skip(g) ==
    /\ gpc[g] = "loop"
    /\ passIdx < Len(passWindows)
    /\ ~PassAtSavedWindow
    /\ passIdx' = passIdx + 1
    /\ UNCHANGED <<gpc, operationMutex, passPositions, passWindows, attempts, passLoadErr,
                   passExpected, lastFailure, passLog, ctxDone, exited, storeVars, engineVars,
                   enumVars, lockVars>>
    /\ uiUnchanged /\ clockUnchanged

\* repositionSavedWindows: MoveWindowAccurate(window.Handle, pos.X, pos.Y,
\* pos.Width, pos.Height) is called for a window with a saved position.
pass_MoveWindowAccurate(g) ==
    /\ gpc[g] = "loop"
    /\ PassAtSavedWindow
    /\ mpc = "idle"
    /\ MoveWindowAccurate_Begin
    /\ mtarget' = SavedPosition(passPositions, passIdentifier(passWindows[passIdx + 1]))

\* repositionSavedWindows: MoveWindowAccurate has returned; its error is
\* logged and the loop goes on.
pass_MoveReturned(g) ==
    /\ gpc[g] = "loop"
    /\ PassAtSavedWindow
    /\ mpc = "done"
    /\ LET window == passWindows[passIdx + 1]
       IN attempts' = Append(attempts, [Handle |-> window.Handle,
                                        pos |-> SavedPosition(passPositions,
                                                              passIdentifier(window)),
                                        result |-> mresult])
    /\ passIdx' = AfterWindow(passIdx + 1, Len(passWindows), mresult)
    /\ UNCHANGED <<gpc, operationMutex, passPositions, passWindows, passLoadErr,
                   passExpected, lastFailure, passLog, ctxDone, exited, storeVars, engineVars,
                   enumVars, lockVars>>
    /\ uiUnchanged /\ clockUnchanged

\* The steps of the goroutine that makes the pass, and of the UI.
PassMoveSteps ==
    \/ pass_Lock("monitor")
    \/ pass_Read("monitor")
    \/ pass_Skip("monitor")
    \/ pass_MoveWindowAccurate("monitor")
    \/ MoveSteps
    \/ pass_MoveReturned("monitor")
    \/ pass_Return("monitor")

RefreshSteps == refresh_Lock \/ refresh_Enumerate

PassMoveNext ==
    \/ PassMoveSteps
    \/ ui_Refresh
    \/ RefreshSteps
    \/ OwnerProcessesRequest
    \/ OwnerHangs
    \/ OwnerResponds
    \/ DestroyWindow

\* The Go scheduler runs a goroutine that can take a step, and a call
\* that waits for the owner of the window returns when the owner answers
\* again; what the user and the owner of the window do is up to them.
PassMoveSpec ==
    /\ PassMoveOnlyInit
    /\ [][PassMoveNext]_vars
    /\ SF_vars(PassMoveSteps)
    /\ WF_vars(RefreshSteps)

\* The tasks and their locks on their own.
LockOnlyInit ==
    /\ StoreInit
    /\ win = NoWindow
    /\ EngineIdle
    /\ nmoves = 0
    /\ nfocus = 0
    /\ ManagerIdle
    /\ EnumIdle
    /\ LockIdle

LockSpec == LockOnlyInit /\ [][LockNext]_vars

(***************************************************************************)
(* Position store: properties                                              *)
(***************************************************************************)
\* What a load of the store file yields when no I/O call fails.
PersistedMap == IF storageFile.kind = "doc" THEN Unmarshal(storageFile) ELSE EmptyMap

\* The reference semantics of one Save or Delete on a map.
RefApply(op, m) ==
    IF op.kind = "Save"
    THEN [k \in DOMAIN m \cup {op.id} |-> IF k = op.id THEN op.pos ELSE m[k]]
    ELSE [k \in {j \in DOMAIN m : j # op.id} |-> m[k]]

\* Every map that running the calls hist[i], i \in S, one after another in
\* some order produces from m.
RECURSIVE SerialResults(_, _)
SerialResults(m, S) ==
    IF S = {} THEN {m}
    ELSE UNION {SerialResults(RefApply(hist[i], m), S \ {i}) : i \in S}

\* The reference map: the calls that returned nil, applied in their order.
RECURSIVE RefMapOf(_)
RefMapOf(h) ==
    IF Len(h) = 0 THEN EmptyMap
    ELSE RefApply(h[Len(h)], RefMapOf(SubSeq(h, 1, Len(h) - 1)))

RefMap == RefMapOf(hist)

\* C1: once every SavePosition/DeletePosition call issued by the tasks has
\* returned, the persisted map is the result of running the calls that
\* returned nil one after another in some order: no completed call is lost.
C1_WritersSerialize ==
    (\A t \in Tasks : Returned(t)) =>
        /\ storageFile.kind # "partial"
        /\ PersistedMap \in SerialResults(EmptyMap, DOMAIN hist)

\* C2: the store file is never a partial document: it always decodes to the
\* map of the last rename that succeeded (absent before the first), also
\* while the temp file is truncated or half written and after a kill in
\* that window, and a load then returns that map.
C2_NoPartialStoreFile ==
    /\ storageFile.kind \in {"absent", "doc"}
    /\ storageFile.kind = "absent" => (hist = <<>> /\ committed = EmptyMap)
    /\ PersistedMap = committed
    /\ \A t \in Tasks :
          (spc[t] = "done" /\ sop[t].kind = "GetAll" /\ ~ioerr[t])
              => sret[t] = RetMap(seen[t].map)

\* C2 witness: a kill left the temp file truncated, the store file still
\* holds the committed non-empty map and a load after the kill returned it.
C2_Witness ==
    /\ crashed
    /\ tmpFile.kind = "partial"
    /\ storageFile.kind = "doc"
    /\ committed # EmptyMap
    /\ \E t \in Tasks :
          /\ spc[t] = "done" /\ sop[t].kind = "GetAll" /\ ~ioerr[t]
          /\ sret[t] = RetMap(committed)

\* C3: a LoadPosition(id) that reads the store while the last write to it is
\* a SavePosition(id, p) that returned nil returns exactly p (unless the
\* read itself fails).
C3_RoundTrip ==
    \A t \in Tasks :
        (/\ spc[t] = "done" /\ sop[t].kind = "Load" /\ ~ioerr[t]
         /\ seen[t].op.kind = "Save" /\ seen[t].op.id = sop[t].id)
            => sret[t] = RetPos(seen[t].op.pos)

\* C3 witness: such a load returned a position with negative x and y that
\* had overwritten another position of the same identifier.
C3_Witness ==
    \E t \in Tasks :
        /\ spc[t] = "done" /\ sop[t].kind = "Load" /\ ~ioerr[t]
        /\ seen[t].op.kind = "Save" /\ seen[t].op.id = sop[t].id
        /\ sret[t].kind = "pos" /\ sret[t].pos.x < 0 /\ sret[t].pos.y < 0
        /\ Len(hist) = 2 /\ hist[1].kind = "Save" /\ hist[1].id = sop[t].id
        /\ hist[1].pos # hist[2].pos

\* C4: with the calls run one after another from an absent store file,
\* GetAllPositions returns exactly the reference map and LoadPosition
\* returns the reference entry, or not-found for an identifier without one
\* (unless the read itself fails).
C4_ListIsReferenceMap ==
    \A t \in Tasks :
        (spc[t] = "done" /\ ~ioerr[t]) =>
            /\ sop[t].kind = "GetAll" => sret[t] = RetMap(RefMap)
            /\ sop[t].kind = "Load" =>
                  sret[t] = IF sop[t].id \in DOMAIN RefMap
                            THEN RetPos(RefMap[sop[t].id]) ELSE RetNotFound

\* C4 witness: after Save(id, p) and Delete(id), List returned the empty map.
C4_Witness ==
    /\ spc["t1"] = "done" /\ sop["t1"].kind = "GetAll" /\ ~ioerr["t1"]
    /\ sret["t1"] = RetMap(EmptyMap)
    /\ Len(hist) = 2
    /\ hist[1] = StoreOp("Save", "A|B|C|0x00000000|0x00000000",
                          WindowPosition(100, 100, 800, 600))
    /\ hist[2] = StoreOp("Delete", "A|B|C|0x00000000|0x00000000", NoPos)

(***************************************************************************)
(* Positioning and foreground engines: properties                          *)
(***************************************************************************)
Returned_nil == mpc = "done" /\ mresult = "nil"

\* C5: whenever MoveWindowAccurate returns nil, the window's rectangle at
\* that moment is exactly the target (x, y, width, height).
C5_SuccessMeansAtTarget == Returned_nil => rectAtReturn = mtarget

\* A call that finds the window's re-read geometry equal to the target
\* returns nil at once and issues no OS mutation call.
AlreadyThereIssuesNoCall ==
    (mpc # "idle" /\ atTarget) =>
        /\ Returned_nil
        /\ invoked = <<>>
        /\ ~mutated

\* C6: a call with an unchanged target made right after one that returned
\* nil, nothing else having touched the window in between, issues no OS
\* mutation call.
C6_RepeatMutatesNothing == repeated => (~mutated /\ invoked = <<>>)

\* C7: the strategies run one at a time and the first success wins: every
\* strategy invoked before the last one returned false, no strategy is
\* invoked after one that returned true, and the call then returns nil.
C7_FirstSuccessWins ==
    /\ Len(outcomes) = Len(invoked)
    /\ \A i \in 1..Len(outcomes) :
          outcomes[i] => (i = Len(outcomes) /\ Returned_nil)
    /\ mpc \notin {"idle", "done"} =>
          (mresult = "none" /\ \A i \in 1..Len(outcomes) : ~outcomes[i])
    /\ (mpc = "done" /\ mresult = "error" /\ invoked # <<>>) =>
          \A i \in 1..Len(outcomes) : ~outcomes[i]

\* C7 witness: the first M strategies failed, 1 <= M, strategy M+1
\* succeeded, strategies remained untried, and the call returned nil.
C7_Witness ==
    /\ Returned_nil
    /\ Len(invoked) \in 3..5
    /\ outcomes[Len(outcomes)]
    /\ \A i \in 1..(Len(outcomes) - 1) : ~outcomes[i]

\* The functions that implement the nine strategies of the specification, in
\* its order; the message-based strategy is a post function and a send
\* function.
SpecChain ==
    <<"trySetWindowPos", "tryAttachThreadInputForSetPos",
      "tryMinimizeRestoreForSetPos", "trySetWindowPlacementForSetPos",
      "tryAsyncWindowPos", "tryPostMessageApproach", "trySendMessageApproach",
      "tryIndirectApproach", "tryAccessibilityApproach",
      "tryWindowsAutomationApproach">>

IsPrefixOf(s, t) == Len(s) <= Len(t) /\ \A i \in 1..Len(s) : s[i] = t[i]

\* C8 as stated: the strategies a call invokes are the nine strategies of the
\* specification in their order, nothing interposed.
C8_ChainIsSpecChain == IsPrefixOf(invoked, SpecChain)

\* The specification's chain with the combined minimize / set / attach /
\* restore strategy between the topmost toggle and the accessibility nudge.
AmendedChain ==
    SubSeq(SpecChain, 1, 8) \o <<"tryCombinedApproach">> \o SubSeq(SpecChain, 9, 10)

\* C8: the strategies a call invokes are, in order, the nine strategies of
\* the specification with the combined strategy interposed between the
\* topmost toggle and the accessibility nudge.
C8_ChainWithCombined ==
    /\ IsPrefixOf(invoked, AmendedChain)
    /\ (mpc = "done" /\ mresult = "error" /\ invoked # <<>>) => invoked = AmendedChain

\* C8 witness: a call ran the whole chain, the combined strategy included.
C8_Witness ==
    /\ mpc = "done"
    /\ Len(invoked) = 11
    /\ invoked[9] = "tryCombinedApproach"
    /\ invoked[10] = "tryAccessibilityApproach"

\* C9: when a strategy returns, the window's show state is the one it had
\* when the strategy started.
C9_ShowStatePreserved == invoked # <<>> => showAfter = showBefore

Follows(calls, i, name) == \E j \in (i + 1)..Len(calls) : calls[j] = name

\* An attach that was followed by further calls succeeded; such an attach has
\* its detach later in the same strategy.
DetachFollowsAttach(calls) ==
    \A i \in 1..Len(calls) :
        (calls[i] = "AttachThreadInput(attach)" /\ i < Len(calls))
            => Follows(calls, i, "AttachThreadInput(detach)")

\* C10: no strategy of MoveWindowAccurate or focusWindow returns with its
\* thread-input attachment in place, on success or on failure: no
\* attachment outlives the strategy that made it, and so none outlives the
\* call.
C10_GuaranteedDetach ==
    /\ attached = {}
    /\ DetachFollowsAttach(mcalls)
    /\ DetachFollowsAttach(fcalls)

\* C10 witness: tryAttachThreadInputForSetPos attached, its SetWindowPos
\* failed, and it detached before returning false.
C10_Witness ==
    /\ invoked # <<>>
    /\ invoked[Len(invoked)] = "tryAttachThreadInputForSetPos"
    /\ ~outcomes[Len(outcomes)]
    /\ mcalls = <<"AttachThreadInput(attach)", "SetWindowPos",
                  "AttachThreadInput(detach)">>
    /\ attached = {}

\* The call got past its entry checks: the handle was valid and the geometry
\* read differed from the target.
EnteredChain == mpc \notin {"idle", "done"} \/ invoked # <<>>

\* C11: a call that got past its entry checks returns an error exactly when
\* every strategy of the chain was invoked and returned false; a strategy
\* that fails before the last one does not end the call, and the call
\* returns once.
C11_ErrorIffExhausted ==
    EnteredChain =>
        /\ mpc = "done" =>
              (mresult = "error" <=>
                  /\ Len(invoked) = 11
                  /\ \A i \in 1..Len(outcomes) : ~outcomes[i])
        /\ mpc = "done" => mresult \in {"nil", "error"}
        /\ mpc # "done" => mresult = "none"
        /\ (invoked # <<>> /\ Len(invoked) < 11 /\ ~outcomes[Len(outcomes)])
              => mpc # "done"

\* C11 witness: the window stayed valid and away from the target, all
\* eleven strategies failed and the call returned the terminal error.
C11_Witness ==
    /\ mpc = "done"
    /\ mresult = "error"
    /\ Len(invoked) = 11
    /\ win.valid
    /\ win.rect # mtarget
    /\ ~win.pending.set

\* The call got past its entry checks: the handle was valid and its
\* rectangle was read.
FocusEntered == fpc \notin {"idle", "done"} \/ finvoked # <<>>

\* The four methods of the specification, in its order.
SpecFocusChain ==
    <<"trySetForegroundWindow", "tryAttachThreadInput", "tryMinimizeRestore",
      "tryAllowSetForegroundWindow">>

\* C18: focusWindow invokes its four methods in the order of the
\* specification, one at a time, and stops at the first that returns true;
\* the second method raises the window without activating it only after its
\* set-foreground was refused; past the entry checks the call returns an
\* error only after all four returned false.
C18_ForegroundChain ==
    /\ IsPrefixOf(finvoked, SpecFocusChain)
    /\ Len(foutcomes) = Len(finvoked)
    /\ \A i \in 1..Len(foutcomes) :
          foutcomes[i] => (i = Len(foutcomes) /\ fpc = "done" /\ fresult = "nil")
    /\ (FocusEntered /\ fpc # "done") =>
          (fresult = "none" /\ fpc = SpecFocusChain[Len(finvoked) + 1])
    /\ (FocusEntered /\ fpc = "done") =>
          (fresult = "error" <=>
              (Len(finvoked) = 4 /\ \A i \in 1..4 : ~foutcomes[i]))
    /\ (finvoked # <<>> /\ \E i \in 1..Len(fcalls) : fcalls[i] = "SetWindowPos(raise)") =>
          /\ finvoked[Len(finvoked)] = "tryAttachThreadInput"
          /\ fcalls = <<"AttachThreadInput(attach)", "SetForegroundWindow",
                        "SetWindowPos(raise)", "AttachThreadInput(detach)">>

\* C18 witness: the first two methods failed, the minimize/restore method
\* succeeded, the fourth was not invoked and the call returned nil.
C18_Witness ==
    /\ fpc = "done"
    /\ fresult = "nil"
    /\ finvoked = SubSeq(SpecFocusChain, 1, 3)
    /\ foutcomes = <<FALSE, FALSE, TRUE>>

\* The rectangle shares no region of positive area with the screen.
EntirelyOutside(r, screen) ==
    \/ r.Right <= screen.Left
    \/ r.Left >= screen.Right
    \/ r.Bottom <= screen.Top
    \/ r.Top >= screen.Bottom

\* C19: past its entry checks focusWindow has issued the recentering
\* SetWindowPos, before any method, exactly when the rectangle it read lies
\* entirely outside the virtual screen; a recentering that succeeded put
\* the window, at its own size, in the middle of the primary display, and
\* one that failed did not end the call.
C19_RecenterIffOutside ==
    FocusEntered =>
        /\ fentry.recenter # "none"
               <=> EntirelyOutside(ToRECT(fentry.rect), VirtualScreen)
        /\ (fentry.recenter = "failed" /\ finvoked = <<>>) => fpc = "trySetForegroundWindow"

\* The goroutines between wm.operationMutex.Lock() and the deferred Unlock
\* of repositionSavedWindows or refreshWindowList.
InCriticalSection ==
    {g \in Goroutines : gpc[g] \in {"read", "loop", "renum"}}

\* C12: the reconciliation pass (startup and periodic) and the UI refresh
\* share one critical section: at most one goroutine is inside it, that
\* goroutine holds operationMutex, and a goroutine that has not got the
\* mutex has neither read the store nor enumerated.
C12_OneInCriticalSection ==
    /\ Cardinality(InCriticalSection) <= 1
    /\ \A g \in InCriticalSection : operationMutex = g
    /\ InCriticalSection = {} => operationMutex = NoTask
    /\ \A g \in Goroutines : gpc[g] \in {"lock", "rlock"} => operationMutex # g

C12_Witness ==
    /\ gpc["startup"] = "loop"
    /\ gpc["monitor"] = "lock"
    /\ gpc["ui"] = "rlock"


\* The handles of the windows of ws that have an entry in m, in the order
\* of ws.
RECURSIVE HandlesWithPosition(_, _)
HandlesWithPosition(ws, m) ==
    IF ws = <<>> THEN <<>>
    ELSE LET rest == HandlesWithPosition(SubSeq(ws, 1, Len(ws) - 1), m)
             w == ws[Len(ws)]
         IN IF saveIdentifier(w) \in DOMAIN m THEN Append(rest, w.Handle) ELSE rest

\* C13: in one pass the engine is invoked once for every enumerated window
\* that has a saved position, in enumeration order, whatever the earlier
\* invocations returned (nil, an error or a panic); a failure does not end
\* the pass, which goes on to its normal return.
C13_FailureIsolated ==
    \A g \in PassGoroutines :
        gpc[g] = "loop" =>
            /\ [i \in 1..Len(attempts) |-> attempts[i].Handle]
                   = HandlesWithPosition(SubSeq(passWindows, 1, passIdx), passPositions)
            /\ passIdx <= Len(passWindows)
            /\ operationMutex = g

C13_Witness ==
    /\ gpc["monitor"] = "loop"
    /\ passIdx = Len(passWindows)
    /\ Len(attempts) = 3
    /\ attempts[1].result = "error"
    /\ attempts[2].result = "panic"
    /\ attempts[3].result = "nil"


\* C14: once cancel() has been called the periodic loop starts no further
\* pass: every call of repositionSavedWindows by startMonitoringService
\* was made before the cancellation.
C14_NoPassAfterCancel ==
    \A i \in 1..Len(passLog) :
        passLog[i].who = "monitor" => ~passLog[i].afterCancel

\* C15: a run has one startup pass, called no earlier than the grace
\* delay, and it is called before the first pass of the periodic loop.
C15_StartupPassFirst ==
    /\ Cardinality({i \in 1..Len(passLog) : passLog[i].who = "startup"}) <= 1
    /\ \A i \in 1..Len(passLog) : passLog[i].who = "startup" => passLog[i].at >= GraceDelay
    /\ passLog # <<>> => passLog[1].who = "startup"

\* The window of the desktop a snapshot was taken of.
WindowOf(snapshot) ==
    CHOOSE w \in {Desktop[i] : i \in 1..Len(Desktop)} : w.Handle = snapshot.Handle

\* C16: every snapshot EnumerateWindows returned to a pass is of a visible
\* window with a non-empty title, more than 8 px wide and more than 8 px
\* high.
C16_SnapshotsTitledAndSized ==
    \A g \in PassGoroutines :
        gpc[g] = "loop" =>
            \A i \in 1..Len(passWindows) :
                /\ WindowOf(passWindows[i]).visible
                /\ passWindows[i].Title # ""
                /\ passWindows[i].WindowRect.Right - passWindows[i].WindowRect.Left > 8
                /\ passWindows[i].WindowRect.Bottom - passWindows[i].WindowRect.Top > 8

\* C17: a refresh whose enumeration failed has left the cached list as it
\* was when the refresh was called.
C17_FailedRefreshKeepsCache ==
    (gpc["ui"] = "idle" /\ refreshErr) => wmWindows = cacheBefore

\* The snapshots of the windows of the desktop.
Snapshots == {getWindowInfo(Desktop[i]) : i \in 1..Len(Desktop)}

\* Equal identity fields give equal identifiers on the save path and in
\* the pass, and the identifiers have the fixed layout.
SameFieldsSameKey ==
    /\ \A w1 \in Snapshots, w2 \in Snapshots :
           IdentityFields(w1) = IdentityFields(w2) => saveIdentifier(w1) = passIdentifier(w2)
    /\ \A w \in Snapshots :
           Len(passIdentifier(w)) = Len(w.Title) + Len(w.ClassName) + Len(w.Executable) + 24
    /\ passIdentifier(getWindowInfo(Desktop[3])) = "T|K|E|0x14CF0000|0x00000100"
    /\ passIdentifier(getWindowInfo(Desktop[1])) = "A|B|C|0x00000000|0x00000000"

\* C20: the identifier depends on the five identity fields only, in the
\* order title, class name, executable, style, exstyle, the two numbers as
\* "0x" and eight hexadecimal digits; the save path and the pass derive the
\* same identifier from the same fields; and a pass that read an entry
\* saved from a snapshot with the fields of an enumerated window, in this
\* run or a previous one, invokes the engine on that window with the
\* position of that entry.
C20_IdentityStable ==
    /\ SameFieldsSameKey
    /\ \A g \in PassGoroutines :
           gpc[g] = "loop" =>
               \A i \in 1..passIdx, s \in savedFields :
                   (s.fields = IdentityFields(passWindows[i]) /\ s.key \in DOMAIN passPositions)
                       => \E j \in 1..Len(attempts) :
                              /\ attempts[j].Handle = passWindows[i].Handle
                              /\ attempts[j].pos = passPositions[s.key]

C20_Witness ==
    /\ gpc["monitor"] = "loop"
    /\ passIdx = Len(passWindows)
    /\ DOMAIN passPositions = {"T|K|E|0x14CF0000|0x00000100"}
    /\ Len(attempts) = 1
    /\ attempts[1].Handle = 3
    /\ attempts[1].pos = WindowPosition(-1920, -8, 1280, 1024)

\* The results loadAll can have in this state that are errors: the file
\* cannot be read, or it is there and is not a JSON document.
LoadErrors == {r \in {loadAllResult(fail) : fail \in BOOLEAN} : r[1]}

\* C21: when loadAll fails, SavePosition, LoadPosition and DeletePosition
\* return an error and write nothing, GetAllPositions returns an empty map;
\* a pass whose GetAllPositions met the failure has an empty map, invokes
\* the engine for no window and goes through its loop to its return; a
\* store file that cannot be parsed is left as it is and every store call
\* of the UI on it returns an error.
C21_LoadFailureIsExplicit ==
    /\ \A r \in LoadErrors :
          /\ \A kind \in {"Save", "Load", "Delete"}, id \in Ids, pos \in SavedPositions :
                LET a == AfterLoad(StoreOp(kind, id, pos), r)
                IN a.pc = "done" /\ a.ret = RetError
          /\ AfterLoad(StoreOp("GetAll", "", NoPos), r).ret = RetMap(EmptyMap)
    /\ storageFile = PartialFile => uiRet \in {"none", "error"}
    /\ \A g \in PassGoroutines :
          (gpc[g] = "loop" /\ passLoadErr) =>
              /\ passPositions = EmptyMap
              /\ attempts = <<>>
              /\ operationMutex = g

C21_Witness ==
    /\ storageFile = PartialFile
    /\ uiRet = "error"
    /\ gpc["monitor"] = "loop"
    /\ passLoadErr
    /\ Len(passWindows) > 0
    /\ passIdx = Len(passWindows)

\* C22: every position in the store file has a width and a height greater
\* than zero.
C22_SavedSizePositive ==
    \A k \in DOMAIN PersistedMap :
        PersistedMap[k].width > 0 /\ PersistedMap[k].height > 0

\* The engine calls a pass over ws with the map m owes: for each window
\* with an entry, in the order of ws, the handle and the entry's position.
RECURSIVE CallsOwed(_, _)
CallsOwed(ws, m) ==
    IF ws = <<>> THEN <<>>
    ELSE LET rest == CallsOwed(SubSeq(ws, 1, Len(ws) - 1), m)
             w == ws[Len(ws)]
             key == Sprintf_identifier(w.Title, w.ClassName, w.Executable, w.Style, w.ExStyle)
         IN IF key \in DOMAIN m
            THEN Append(rest, [Handle |-> w.Handle, pos |-> m[key]])
            ELSE rest

\* A step of repositionSavedWindows.
PassStep ==
    \/ \E g \in PassGoroutines : gpc[g] \in {"lock", "read", "loop"} /\ gpc'[g] # gpc[g]
    \/ passIdx' # passIdx

CallsMadeAreCallsOwed ==
    \A g \in PassGoroutines :
        gpc[g] = "loop" =>
            [i \in 1..Len(attempts) |-> [Handle |-> attempts[i].Handle, pos |-> attempts[i].pos]]
                = CallsOwed(SubSeq(passWindows, 1, passIdx), passPositions)

\* C24: the engine calls of a pass are, in enumeration order, one call for
\* each enumerated window whose identifier has an entry in the map the pass
\* read at its start, with the x, y, width and height of that entry; a
\* window without an entry gets no call; and no step of a pass changes the
\* store file or its temporary file.
C24_PassEffect ==
    /\ []CallsMadeAreCallsOwed
    /\ [][PassStep => UNCHANGED <<storageFile, tmpFile>>]_vars

C24_Witness ==
    /\ gpc["startup"] = "loop"
    /\ passIdx = Len(passWindows)
    /\ Len(passWindows) = 5
    /\ attempts = <<[Handle |-> 1, pos |-> WindowPosition(100, 100, 800, 600), result |-> "nil"],
                    [Handle |-> 7, pos |-> WindowPosition(100, 100, 800, 600), result |-> "nil"]>>

\* A panic has been recovered: in the pass in progress or in one that has
\* returned.
PanicRecovered ==
    \/ lastFailure.result = "panic"
    \/ \E i \in 1..Len(attempts) : attempts[i].result = "panic"

\* C25: after a panic inside a pass the mutex is held only by a goroutine
\* that is inside the critical section, the process has not ended unless
\* it was cancelled, and the periodic loop is still at its select or in a
\* pass: only cancellation makes it return.
C25_PanicContained ==
    PanicRecovered =>
        /\ \A g \in Goroutines : operationMutex = g => g \in InCriticalSection
        /\ exited => ctxDone
        /\ gpc["monitor"] = "returned" => ctxDone
        /\ gpc["monitor"] \in {"select", "lock", "read", "loop", "returned"}

C25_Witness ==
    /\ lastFailure = [Handle |-> 0, result |-> "panic"]
    /\ ~ctxDone
    /\ Len(passLog) = 2
    /\ passLog[2].who = "monitor"
    /\ gpc["monitor"] = "loop"
    /\ attempts # <<>>

\* C26: the save and delete buttons do not wait for operationMutex: they
\* can act whenever the UI is idle, a pass in progress or not.  A pass
\* whose store read succeeded works on the map that the store calls
\* returned before that read add up to: it has every position saved and
\* no identifier deleted before, and each of its engine calls is for an
\* entry of that map, whatever store call returns while it is in progress.
C26_PassSeesReturnedCalls ==
    /\ (gpc["ui"] = "idle" /\ nui > 0 /\ ~exited /\ wmWindows # <<>>) => ENABLED ui_Save
    /\ (gpc["ui"] = "idle" /\ nui > 0 /\ ~exited /\ positionKeys # {}) => ENABLED ui_Delete
    /\ \A g \in PassGoroutines :
          (gpc[g] = "loop" /\ ~passLoadErr) =>
              /\ passPositions = passExpected
              /\ \A i \in 1..Len(attempts) :
                    \E key \in DOMAIN passExpected : attempts[i].pos = passExpected[key]

C26_Witness ==
    /\ gpc["monitor"] = "loop"
    /\ ~passLoadErr
    /\ passIdx = Len(passWindows)
    /\ Len(passWindows) = 5
    /\ savedFields # {}
    /\ uiRet = "nil"
    /\ passExpected = EmptyMap
    /\ attempts = <<>>

\* A call of MoveWindowAccurate on a valid window away from the target
\* starts at the first strategy: its entry takes the window and the target
\* only, nothing of an earlier call.
FreshCallStartsChain ==
    \A w \in WindowStates, tgt \in Targets :
        ~AlreadyThere(w.rect, tgt) =>
            MoveEntry(w, tgt, TRUE) = [pc |-> "trySetWindowPos", result |-> "none"]

\* C27: a window whose reposition returned the terminal error in a pass
\* that has returned is attempted again in a later pass that enumerates it
\* with an identifier the pass read from the store, and the call made for
\* it starts at the first strategy.
C27_RetriedInNextPass ==
    /\ FreshCallStartsChain
    /\ \A g \in PassGoroutines :
          gpc[g] = "loop" =>
              \A i \in 1..passIdx :
                  LET w == passWindows[i]
                      key == Sprintf_identifier(w.Title, w.ClassName, w.Executable,
                                                w.Style, w.ExStyle)
                  IN (lastFailure = [Handle |-> w.Handle, result |-> "error"]
                          /\ key \in DOMAIN passPositions)
                         => \E j \in 1..Len(attempts) : attempts[j].Handle = w.Handle

C27_Witness ==
    /\ lastFailure = [Handle |-> 7, result |-> "error"]
    /\ Len(passLog) = 2
    /\ gpc["monitor"] = "loop"
    /\ passIdx = Len(passWindows)
    /\ \E j \in 1..Len(attempts) : attempts[j].Handle = 7

\* The snapshot of the pass in progress with this handle.
PassWindowOf(h) ==
    passWindows[CHOOSE i \in 1..Len(passWindows) : passWindows[i].Handle = h]

\* Snapshots with the same five fields have the same identifier.
SameFieldsOneIdentifier ==
    \A w1 \in Snapshots, w2 \in Snapshots :
        IdentityFields(w1) = IdentityFields(w2) => saveIdentifier(w1) = saveIdentifier(w2)

\* C30: windows that share the five identity fields have one identifier
\* and so one store entry: the store file holds the map in which each save
\* replaced what an earlier save had put under the identifier, with no
\* more entries than distinct field tuples saved from, and a pass calls
\* the engine on every enumerated window with these fields with the one
\* position of that entry.
C30_CollidingWindowsShareEntry ==
    /\ SameFieldsOneIdentifier
    /\ storageFile.kind = "doc" =>
           /\ PersistedMap = expected
           /\ Cardinality(DOMAIN PersistedMap) <= Cardinality({s.fields : s \in savedFields})
    /\ \A g \in PassGoroutines :
           gpc[g] = "loop" =>
               /\ \A i \in 1..Len(attempts), j \in 1..Len(attempts) :
                      IdentityFields(PassWindowOf(attempts[i].Handle))
                              = IdentityFields(PassWindowOf(attempts[j].Handle))
                          => attempts[i].pos = attempts[j].pos
               /\ \A i \in 1..passIdx, j \in 1..passIdx :
                      (IdentityFields(passWindows[i]) = IdentityFields(passWindows[j])
                          /\ \E a \in 1..Len(attempts) : attempts[a].Handle = passWindows[i].Handle)
                          => \E a \in 1..Len(attempts) : attempts[a].Handle = passWindows[j].Handle

\* C30 witness: a previous run saved window 1 at 100,100; in this run the
\* position of window 7, which has the same fields, was saved and replaced
\* it, and a pass called the engine on both windows with 50,50,800,600.
C30_Witness ==
    /\ expected = SetEntry(EmptyMap, "A|B|C|0x00000000|0x00000000", WindowPosition(50, 50, 800, 600))
    /\ passPositions = expected
    /\ gpc["monitor"] = "loop"
    /\ passIdx = Len(passWindows)
    /\ Len(attempts) = 2
    /\ attempts[1].Handle = 1 /\ attempts[1].pos = WindowPosition(50, 50, 800, 600)
    /\ attempts[2].Handle = 7 /\ attempts[2].pos = WindowPosition(50, 50, 800, 600)

\* getWindowPosition refuses a handle that is zero or destroyed, whatever
\* GetWindowRect would report.
StaleHandleHasNoPosition ==
    \A rectOk \in BOOLEAN, rect \in {ToRECT(r) : r \in WinRects} :
        getWindowPosition(FALSE, rectOk, rect).err

\* C28: a call of MoveWindowAccurate, focusWindow or saveWindowPosition
\* (through getWindowPosition) on a handle that isValidWindow rejects, as it
\* rejects the zero handle and the handle of a destroyed window, returns an
\* error at its entry: no strategy or method is invoked, no OS call is
\* issued, the window state is as before, and the store file is untouched.
C28_StaleHandleRefused ==
    /\ StaleHandleHasNoPosition
    /\ [][(~win.valid /\ (\/ MoveWindowAccurate_Begin
                          \/ focusWindow_Begin
                          \/ saveWindowPosition_OnWindow)) =>
            /\ MoveWindowAccurate_Begin =>
                   mpc' = "done" /\ mresult' = "error" /\ invoked' = <<>> /\ mcalls' = <<>>
                       /\ ~mutated'
            /\ focusWindow_Begin =>
                   fpc' = "done" /\ fresult' = "error" /\ finvoked' = <<>> /\ fcalls' = <<>>
            /\ saveWindowPosition_OnWindow =>
                   uiRet' = "error" /\ storageFile' = storageFile
            /\ win' = win /\ attached' = attached]_vars

\* C28 witness: the owner destroyed the window, then MoveWindowAccurate
\* was called on the handle and returned an error without a strategy.
C28_Witness ==
    /\ ~win.valid
    /\ quiet
    /\ nmoves = MaxMoves - 1
    /\ mpc = "done" /\ mresult = "error"
    /\ invoked = <<>> /\ mcalls = <<>>

(***************************************************************************)
(* EnumerateWindows: properties                                            *)
(***************************************************************************)
\* The OS call that fills each field read from the window handle.
CallOfField ==
    [Title |-> "GetWindowText", ClassName |-> "GetClassName",
     ProcessID |-> "GetWindowThreadProcessId", Style |-> "getWindowLong(GWL_STYLE)",
     ExStyle |-> "getWindowLong(GWL_EXSTYLE)", ClientRect |-> "getClientRect",
     WindowRect |-> "GetWindowRect"]

\* getWindowInfo has returned the snapshot of a window that existed
\* throughout.
SnapshotOfLiveWindow == epc = "filter" /\ einvalidAt = "none"

\* Each field read from the window handle is what the OS holds, or its
\* zero value if its call failed.
HandleFieldsDegradeAlone ==
    SnapshotOfLiveWindow =>
        \A f \in DOMAIN CallOfField :
            einfo[f] = IF CallOfField[f] \in efailed THEN NoInfo(0)[f]
                       ELSE TrueInfo(EnumDesktop[eidx])[f]

\* No failure stops getWindowInfo, the callback or EnumWindows, and
\* EnumerateWindows returns an error exactly when EnumWindows returned 0,
\* else the buffer.
NothingAborts ==
    /\ epc \in {InfoSteps[i] : i \in 1..Len(InfoSteps)} =>
           \/ ENABLED info_isValidWindow
           \/ ENABLED info_GetWindowText
           \/ ENABLED info_GetClassName
           \/ ENABLED info_GetWindowThreadProcessId
           \/ ENABLED info_getProcessExecutablePath
           \/ ENABLED info_getWindowLong_Style
           \/ ENABLED info_getWindowLong_ExStyle
           \/ ENABLED info_getClientRect
           \/ ENABLED info_GetWindowRect
    /\ epc = "filter" => ENABLED callback_Filter
    /\ (epc = "next" /\ eidx < Len(EnumDesktop)) => ENABLED enum_Visit
    /\ epc = "done" =>
           /\ eret.err <=> eok = FALSE
           /\ ~eret.err => eret.windows = elist /\ eidx = Len(EnumDesktop)

\* C23 as stated: a failing sub-query leaves only its own field empty or
\* zero, the executable (which there is none to resolve without a process
\* id) being the placeholder when opening the process is refused and empty
\* when the path query fails; nothing aborts the snapshot or the
\* enumeration; EnumerateWindows fails only with EnumWindows.
C23_FailedQueryEmptiesOnlyItsField ==
    /\ HandleFieldsDegradeAlone
    /\ SnapshotOfLiveWindow =>
           einfo.Executable =
               IF "GetWindowThreadProcessId" \in efailed THEN ""
               ELSE IF "OpenProcess" \in efailed THEN "PID:" \o FormatDec(OwnerPid(EnumDesktop[eidx]))
               ELSE IF "GetModuleFileNameExW" \in efailed THEN ""
               ELSE EnumDesktop[eidx].Executable
    /\ NothingAborts

\* C23: a failing query on the window handle leaves only its own field
\* empty or zero; the executable is empty when the process id could not be
\* read, the placeholder PID:<pid> when opening the process or asking for
\* its path fails, and the path otherwise; nothing aborts the snapshot or
\* the enumeration; EnumerateWindows fails only with EnumWindows.
C23_FailedQueryDegradesItsField ==
    /\ HandleFieldsDegradeAlone
    /\ SnapshotOfLiveWindow =>
           einfo.Executable =
               IF "GetWindowThreadProcessId" \in efailed THEN ""
               ELSE IF efailed \cap {"OpenProcess", "GetModuleFileNameExW"} # {}
                    THEN "PID:" \o FormatDec(OwnerPid(EnumDesktop[eidx]))
                    ELSE EnumDesktop[eidx].Executable
    /\ NothingAborts

\* C23 witness: the class name query and the path query of window 3 failed;
\* its snapshot has the title and the styles, no class name, and the
\* placeholder as executable.
C23_Witness ==
    /\ SnapshotOfLiveWindow
    /\ eidx = 1
    /\ efailed = {"GetClassName", "GetModuleFileNameExW"}
    /\ einfo.Title = "T"
    /\ einfo.ClassName = ""
    /\ einfo.ProcessID = 4003
    /\ einfo.Executable = "PID:4003"
    /\ einfo.Style = 349110272
    /\ einfo.WindowRect = RECT(-1920, -8, -640, 1016)

\* getWindowInfo has returned the snapshot of a window its owner destroyed
\* while the snapshot was taken.
SnapshotOfDestroyedWindow == epc = "filter" /\ einvalidAt # "none"

\* The field was filled, or its call had failed, before the window was
\* destroyed.
CollectedBefore(f) == StepIndex(StepOfField[f]) < StepIndex(einvalidAt)

\* C29 as stated: the snapshot of a window destroyed while it was taken
\* has the fields collected before as they were, every other field empty
\* or zero, and the enumeration goes on.
C29_RestEmptyAfterInvalidation ==
    /\ SnapshotOfDestroyedWindow =>
           \A i \in 1..Len(InfoFields) :
               einfo[InfoFields[i]] = IF CollectedBefore(InfoFields[i])
                                      THEN einfoAt[InfoFields[i]]
                                      ELSE NoInfo(0)[InfoFields[i]]
    /\ epc = "filter" => ENABLED callback_Filter
    /\ (epc = "next" /\ eidx < Len(EnumDesktop)) => ENABLED enum_Visit

\* The fields of a snapshot of a destroyed window: what was collected
\* before is kept, what is read from the window handle afterwards is empty
\* or zero, and the executable is still resolved from a process id that
\* was collected.
KeptAndRest ==
    SnapshotOfDestroyedWindow =>
        /\ \A i \in 1..Len(InfoFields) :
               CollectedBefore(InfoFields[i]) => einfo[InfoFields[i]] = einfoAt[InfoFields[i]]
        /\ \A f \in DOMAIN CallOfField :
               ~CollectedBefore(f) => einfo[f] = NoInfo(0)[f]
        /\ ~CollectedBefore("Executable") =>
               IF einfoAt.ProcessID = 0 THEN einfo.Executable = ""
               ELSE einfo.Executable \in {EnumDesktop[eidx].Executable,
                                          "PID:" \o FormatDec(einfoAt.ProcessID)}

\* C29: the snapshot of a window destroyed while it was taken has the
\* fields collected before as they were and the fields read from the
\* window handle afterwards empty or zero; the executable is still resolved,
\* to the path or the placeholder, if the process id was collected; the
\* snapshot has no window rectangle and is not added to the list, and the
\* enumeration goes on with the next window.
C29_KeptFieldsAfterInvalidation ==
    /\ []KeptAndRest
    /\ [](epc = "filter" => ENABLED callback_Filter)
    /\ []((epc = "next" /\ eidx < Len(EnumDesktop)) => ENABLED enum_Visit)
    /\ [][SnapshotOfDestroyedWindow => (epc' = "next" /\ elist' = elist /\ eidx' = eidx)]_vars

\* C29 witness: window 3 was destroyed after its title, class name and
\* process id were read: the snapshot has them and the executable, but
\* zero styles and rectangles.
C29_Witness ==
    /\ SnapshotOfDestroyedWindow
    /\ eidx = 1
    /\ einvalidAt = "exe"
    /\ efailed = {}
    /\ einfo.Title = "T"
    /\ einfo.ClassName = "K"
    /\ einfo.ProcessID = 4003
    /\ einfo.Executable = "E"
    /\ einfo.Style = 0
    /\ einfo.ExStyle = 0
    /\ einfo.WindowRect = RECT(0, 0, 0, 0)

(***************************************************************************)
(* isRectOnScreen: properties                                              *)
(***************************************************************************)
\* The area, in pixels, that a rectangle and the screen have in common.
Smaller(a, b) == IF a < b THEN a ELSE b
Larger(a, b) == IF a > b THEN a ELSE b
OverlapArea(r, screen) ==
    LET w == Smaller(r.Right, screen.Right) - Larger(r.Left, screen.Left)
        h == Smaller(r.Bottom, screen.Bottom) - Larger(r.Top, screen.Top)
    IN IF w > 0 /\ h > 0 THEN w * h ELSE 0

\* C38: isRectOnScreen, as focusWindow applies it to the rectangle it read
\* and the virtual screen, is true exactly when the two have a region of
\* positive area in common; a rectangle that only touches the boundary of
\* the virtual screen is off-screen and is recentered.
C38_OnScreenIffPositiveOverlap ==
    FocusEntered =>
        /\ isRectOnScreen(ToRECT(fentry.rect), VirtualScreen)
               <=> OverlapArea(ToRECT(fentry.rect), VirtualScreen) > 0
        /\ ToRECT(fentry.rect).Right = VirtualScreen.Left => fentry.recenter # "none"

(***************************************************************************)
(* The identity key: properties                                            *)
(***************************************************************************)
\* C35: the identifier is injective on the five identity fields, also for
\* titles and class names that contain '|': an entry saved from one row is
\* found under the identifier of another row only if the two rows have the
\* same five fields.
C35_KeyInjective ==
    \A s \in savedFields :
        \A i \in 1..Len(cacheBefore) :
            passIdentifier(cacheBefore[i]) = s.key => IdentityFields(cacheBefore[i]) = s.fields

\* The window of the desktop behind a handle.
EnumWindowOf(h) ==
    EnumDesktop[CHOOSE i \in 1..Len(EnumDesktop) : EnumDesktop[i].Handle = h]

\* Two snapshots of the buffer show the same application window: the
\* fields read from the window handle are equal, the process ids were
\* read, the executable file of the two owning processes is the same, and
\* its path was resolved for both or for neither.
SameApplicationWindow(a, b) ==
    /\ a.Title = b.Title /\ a.ClassName = b.ClassName
    /\ a.ProcessID # 0 /\ b.ProcessID # 0
    /\ a.Style = b.Style /\ a.ExStyle = b.ExStyle
    /\ EnumWindowOf(a.Handle).Executable = EnumWindowOf(b.Handle).Executable
    /\ (a.Executable = EnumWindowOf(a.Handle).Executable)
           <=> (b.Executable = EnumWindowOf(b.Handle).Executable)

\* C36: the identifier of a snapshot depends on neither the handle nor
\* the process id: two snapshots of the same application window in
\* different processes have the same identifier, also when the path of the
\* executable could not be resolved.
C36_KeyIgnoresHandleAndPid ==
    \A i \in 1..Len(elist), j \in 1..Len(elist) :
        SameApplicationWindow(elist[i], elist[j])
            => passIdentifier(elist[i]) = passIdentifier(elist[j])

(***************************************************************************)
(* Position store: failed calls                                            *)
(***************************************************************************)
\* A Save or Delete that met a failure, of its load, of the write of the
\* temp file or of the rename, has returned an error.
FailedCallReturnsError ==
    \A t \in Tasks :
        (spc[t] = "done" /\ sop[t].kind \in {"Save", "Delete"} /\ ioerr[t])
            => sret[t] = RetError

\* The step in which the store file changes is the rename of a task whose
\* call met no failure and returns nil; the new content is the document of
\* the map that call loaded and modified.
StoreFileChangesOnlyOnSuccess ==
    storageFile' # storageFile =>
        \E t \in Tasks :
            /\ spc[t] = "rename" /\ spc'[t] = "done"
            /\ ~ioerr'[t]
            /\ sret'[t] = RetNil
            /\ storageFile' = MarshalIndent(positions[t])

\* C37: a SavePosition or DeletePosition whose load of the store fails, or
\* whose write of the temp file fails, returns an error, and no step of
\* such a call changes the store file: the file changes only in the rename
\* of a call that loaded the store and wrote the temp file without failure.
C37_FailedCallLeavesStore ==
    /\ []FailedCallReturnsError
    /\ [][StoreFileChangesOnlyOnSuccess]_vars
    /\ [][\A t \in Tasks :
              (spc[t] \in {"loadAll", "write"} /\ ioerr'[t] /\ ~ioerr[t])
                  => (storageFile' = storageFile /\ spc'[t] = "done")]_vars

\* C37 witness: the store holds an entry; a Save of another identifier by
\* task t1 failed in its load and returned an error, and the store file is
\* still the document with the one entry.
C37_Witness ==
    /\ spc["t1"] = "done"
    /\ sop["t1"].kind = "Save"
    /\ ioerr["t1"]
    /\ positions["t1"] = EmptyMap
    /\ sret["t1"] = RetError
    /\ Cardinality(DOMAIN committed) = 1
    /\ sop["t1"].id \notin DOMAIN committed
    /\ storageFile = MarshalIndent(committed)

(***************************************************************************)
(* MoveWindowAccurate and the identity key                                 *)
(***************************************************************************)
\* The identifier a snapshot of the target window gets: title, class name,
\* executable and style as window 3 of the desktop has them, the extended
\* style as the window has it now.
KeyOfTarget(w) ==
    Sprintf_identifier(Desktop[3].Title, Desktop[3].ClassName, Desktop[3].Executable,
                       Desktop[3].Style, w.exstyle)

\* C31: no step of a MoveWindowAccurate call changes the extended style of
\* the target window, so the window has the same identifier, and is matched
\* to the same saved position, in the next pass.
C31_MoveKeepsIdentity ==
    [][MoveNext => KeyOfTarget(win') = KeyOfTarget(win)]_vars

\* C32: every pass gives the critical section up, whatever the windows do,
\* and a refresh that waits for the critical section gets it.
C32_PassReleasesCriticalSection ==
    /\ (operationMutex = "monitor") ~> (operationMutex # "monitor")
    /\ (gpc["ui"] = "rlock") ~> (gpc["ui"] = "renum")

(***************************************************************************)
(* The locks: properties                                                   *)
(***************************************************************************)
HasOp(ops, calls) == \E i \in 1..Len(calls) : calls[i].op \in ops

\* The task has reset the buffer and has still to fill or to copy it.
InEnumerateWindows(t) == HasOp({"append", "copy"}, todo[t]) /\ ~HasOp({"reset"}, todo[t])

\* C33: a task that is inside EnumerateWindows holds the critical section,
\* so no two tasks are inside it at once, and the list a call returns is
\* the list of the qualifying windows of its own enumeration.
C33_OneEnumerationAtATime ==
    /\ \A t \in LockTasks : InEnumerateWindows(t) => operationMutex = t
    /\ \A t \in LockTasks : tret[t].set => tret[t].windows = QualifyingWindows

\* A pass, a startup pass and a refresh have each returned a list.
C33_Witness ==
    /\ tret["monitor"].set
    /\ tret["startup"].set
    /\ tret["ui"].set

InnerLocks == {"windowsMutex", "enumMutex", "mu"}

\* The task is at a Lock or an RLock.
AtLock(t) == todo[t] # <<>> /\ Head(todo[t]).op \in {"Lock", "RLock"}

\* C34: no task asks for a lock it holds, a task that holds the cache lock,
\* the buffer lock or the store mutex asks for no lock before it has
\* released it, and as long as a call is in progress some task can go on.
C34_NoDeadlock ==
    /\ \A t \in LockTasks : AtLock(t) => ~Holds(t, Head(todo[t]).lock)
    /\ \A t \in LockTasks : \A lock \in InnerLocks : Holds(t, lock) => ~AtLock(t) /\ todo[t] # <<>>
    /\ (\E t \in LockTasks : todo[t] # <<>>) => (\E t \in LockTasks : CanStep(t))

\* A pass holds the critical section and the store mutex, the startup pass
\* and a refresh wait for the critical section, the heartbeat reads the cache.
C34_Witness ==
    /\ operationMutex = "monitor"
    /\ mu = "monitor"
    /\ AtLock("startup") /\ Head(todo["startup"]).lock = "operationMutex"
    /\ AtLock("ui") /\ Head(todo["ui"]).lock = "operationMutex"
    /\ "heartbeat" \in windowsMutex.readers

====
